---------------------------- MODULE Spec2Model ----------------------------
(***************************************************************************)
(* Model of the Canada men's Olympic hockey calendar generator            *)
(* (joeuttaro/cmoh): schedule extraction (parseSchedule, parseIIHFAPI),    *)
(* deduplication and id assignment, event materialisation (parseDateTime,  *)
(* generateICS) and the main script.                                       *)
(*                                                                         *)
(* Representation of text.  TLC cannot look inside a string, so every      *)
(* string the code takes apart is kept in the decomposed form the code's   *)
(* split / regular expression produces, next to the operators that render  *)
(* it back to the string the code compares or hashes:                      *)
(*   - a numeral is a record [txt, val]: the digits and what parseInt      *)
(*     gives for them (NaN for a non-numeric part);                        *)
(*   - a dateStr is the sequence of its parts between '/' separators;      *)
(*   - a timeStr is the match of /(\d{1,2}):(\d{2})\s*(am|pm|AM|PM)?/ :    *)
(*     hour, minute, the white space the \s* swallowed, and the suffix;    *)
(*   - the text of an element is the sequence of its words (white space    *)
(*     between words is one blank, so trim() changes nothing).             *)
(***************************************************************************)
EXTENDS Integers, Sequences, FiniteSets, TLC

VARIABLES
  pc,            \* position: "idle", "parsed", "reparsed", "deduped", "generated",
                 \* "fetching", "writing", "exited", "returned", "renormalized";
                 \* in fetchSchedule
                 \* "api", "html", "puppeteer", "fetched", "failed"
  op,            \* the function called last
  doc,           \* the HTML document given to parseSchedule
  feed,          \* the JSON array given to parseIIHFAPI
  candidates,    \* parseSchedule: the games array before the duplicate filter
  schedule,      \* the records returned by the parser / handed to generateICS
  previous,      \* the records parseSchedule returned in the run before
  apiSrc,        \* parseIIHFAPI: feed index of each returned record
  events,        \* generateICS: the events created in the calendar, in order
  eventsCreated, \* generateICS: counter of created events
  errors,        \* generateICS: indices of the records whose creation failed
  threw,         \* the function called last ended by throwing
  file,          \* the events of the written output file, or NoFile
  exitCode,      \* process exit code, or Running
  arg,           \* the argument of a direct call of a helper function
  result         \* what that call returned

vars == <<pc, op, doc, feed, candidates, schedule, previous, apiSrc,
          events, eventsCreated, errors, threw, file, exitCode, arg, result>>

NaN == -1

---------------------------------------------------------------------------
(* Numerals and their rendering                                            *)

Digit == <<"0", "1", "2", "3", "4", "5", "6", "7", "8", "9">>

\* String(n) / template `${n}` of a non-negative integer
RECURSIVE NatStr(_)
NatStr(n) == IF n < 10 THEN Digit[n + 1]
             ELSE NatStr(n \div 10) \o Digit[(n % 10) + 1]

\* String(n).padStart(2, '0')
Pad2(n) == IF n < 10 THEN "0" \o NatStr(n) ELSE NatStr(n)

\* a numeral as written in a text: its digits and their parseInt value
Num(t, v) == [txt |-> t, val |-> v]
\* the numeral `${n}` of a number
NumOf(n) == Num(NatStr(n), n)
\* the numeral of n written with two digits
Num2(n) == Num(Pad2(n), n)

parseInt(p) == p.val

---------------------------------------------------------------------------
(* dateStr and timeStr                                                     *)

\* the string of a dateStr with parts p (joined by '/')
RECURSIVE JoinSlash(_)
JoinSlash(p) == IF Len(p) = 0 THEN ""
                ELSE IF Len(p) = 1 THEN p[1].txt
                ELSE p[1].txt \o "/" \o JoinSlash(Tail(p))

DateText(d) == JoinSlash(d)

\* a timeStr: ok = the time pattern matches; otherwise raw is its text
Time(h, mi, ws, p) == [ok |-> TRUE, h |-> h, mi |-> mi, ws |-> ws, p |-> p, raw |-> ""]
NoTime(raw) == [ok |-> FALSE, h |-> Num("", NaN), mi |-> Num("", NaN),
                ws |-> "", p |-> "", raw |-> raw]

TimeText(t) == IF t.ok THEN t.h.txt \o ":" \o t.mi.txt \o t.ws \o t.p ELSE t.raw

\* String.prototype.toLowerCase on the am/pm suffix
LowerPeriod(p) == IF p = "AM" THEN "am" ELSE IF p = "PM" THEN "pm" ELSE p

---------------------------------------------------------------------------
(* Calendar arithmetic of Date.UTC and Date.prototype.toISOString          *)
(* (proleptic Gregorian, instants in minutes since 1970-01-01T00:00Z)      *)

\* day number from the era, the year of the era, the month counted from
\* March and the day; linear in d, so a day past the end of the month rolls
\* into the following month as Date.UTC does
DaysFromEra(era, yoe, mp, d) ==
  era * 146097 + yoe * 365 + yoe \div 4 - yoe \div 100
    + (153 * mp + 2) \div 5 + d - 1 - 719468

DaysFromMarch(yy, mp, d) == DaysFromEra(yy \div 400, yy % 400, mp, d)

\* day number of year y, month m (1..12), day d
DaysFromCivil(y, m, d) ==
  IF m <= 2 THEN DaysFromMarch(y - 1, m + 9, d) ELSE DaysFromMarch(y, m - 3, d)

\* Date.UTC(year, month0, day, hours, minutes) in minutes; month0 is 0-based
DateUTC(year, month0, day, hours, minutes) ==
  (DaysFromCivil(year, month0 + 1, day) * 24 + hours) * 60 + minutes

\* the UTC date of a day number, as toISOString prints it
CivilOf(era, yoe, doy, mp) ==
  [year  |-> yoe + era * 400 + (IF mp >= 10 THEN 1 ELSE 0),
   month |-> IF mp < 10 THEN mp + 3 ELSE mp - 9,
   day   |-> doy - (153 * mp + 2) \div 5 + 1]
CivilOfDoy(era, yoe, doy) == CivilOf(era, yoe, doy, (5 * doy + 2) \div 153)
CivilOfYoe(era, doe, yoe) ==
  CivilOfDoy(era, yoe, doe - (365 * yoe + yoe \div 4 - yoe \div 100))
CivilOfDoe(era, doe) ==
  CivilOfYoe(era, doe,
             (doe - doe \div 1460 + doe \div 36524 - doe \div 146096) \div 365)
CivilFromDays(z) == CivilOfDoe((z + 719468) \div 146097, (z + 719468) % 146097)

FieldsOf(c, minuteOfDay) ==
  [year |-> c.year, month |-> c.month, day |-> c.day,
   hour |-> minuteOfDay \div 60, minute |-> minuteOfDay % 60]
\* the UTC fields of an instant
Fields(t) == FieldsOf(CivilFromDays(t \div 1440), t % 1440)

---------------------------------------------------------------------------
(* lib/ics.js: parseDateTime                                               *)

romeOffsetHours == 1

Thrown == [ok |-> FALSE, t |-> 0]
Returned(t) == [ok |-> TRUE, t |-> t]

\* the three parts always taken as day, month, year
DayMonthYear(part1, part2, part3) ==
  [day |-> part1, month |-> part2 - 1, year |-> part3]

\* the (day, month0, year) the date branch assigns to the three parts
DatePartsOf(part1, part2, part3) ==
  IF part1 > 12 THEN [day |-> part1, month |-> part2 - 1, year |-> part3]
  ELSE IF part2 > 12 THEN [day |-> part2, month |-> part1 - 1, year |-> part3]
  ELSE [day |-> part1, month |-> part2 - 1, year |-> part3]
DateParts(d) == DatePartsOf(parseInt(d[1]), parseInt(d[2]), parseInt(d[3]))

\* a conversion that leaves 12 am at 12
HoursOfNoMidnight(hours, period) ==
  IF period = "pm" /\ hours # 12 THEN hours + 12 ELSE hours

\* the hours after the 12-hour conversion
HoursOf(hours, period) ==
  IF period = "pm" /\ hours # 12 THEN hours + 12
  ELSE IF period = "am" /\ hours = 12 THEN 0
  ELSE hours
Hours24(t) == HoursOf(parseInt(t.h), LowerPeriod(t.p))

\* a NaN day, month or year: parseInt of a non-numeric part (month is the
\* parsed number minus one, NaN - 1 is NaN)
DateHasNaN(d) == parseInt(d[1]) = NaN \/ parseInt(d[2]) = NaN \/ parseInt(d[3]) = NaN

\* the wall-clock fields taken as UTC fields, no offset subtracted
WallClockAsUTC(dp, hours, minutes) ==
  Returned(DateUTC(dp.year, dp.month, dp.day, hours, minutes))

\* the range checks without the one on the hours
HoursUnchecked(dp, hours, minutes) ==
  IF dp.month < 0 \/ dp.month > 11 THEN Thrown
  ELSE IF dp.day < 1 \/ dp.day > 31 THEN Thrown
  ELSE IF minutes < 0 \/ minutes > 59 THEN Thrown
  ELSE Returned(DateUTC(dp.year, dp.month, dp.day, hours, minutes)
                - romeOffsetHours * 60)

\* the range checks, Date.UTC and the subtraction of the offset
LocalToUTC(dp, hours, minutes) ==
  IF dp.month < 0 \/ dp.month > 11 THEN Thrown          \* Invalid month
  ELSE IF dp.day < 1 \/ dp.day > 31 THEN Thrown         \* Invalid day
  ELSE IF hours < 0 \/ hours > 23 THEN Thrown           \* Invalid hours
  ELSE IF minutes < 0 \/ minutes > 59 THEN Thrown       \* Invalid minutes
  ELSE Returned(DateUTC(dp.year, dp.month, dp.day, hours, minutes)
                - romeOffsetHours * 60)

parseDateTime(dateStr, timeStr) ==
  IF Len(dateStr) # 3 THEN Thrown                       \* Invalid date format
  ELSE IF ~timeStr.ok THEN Thrown                       \* Invalid time format
  ELSE IF DateHasNaN(dateStr) THEN Thrown               \* Invalid parsed values
  ELSE LocalToUTC(DateParts(dateStr), Hours24(timeStr), parseInt(timeStr.mi))

---------------------------------------------------------------------------
(* Text of HTML elements: sequences of words                               *)
(*                                                                         *)
(* The classes below say, for every word of the vocabulary the documents   *)
(* are written in, what the character classes of the code's regular        *)
(* expressions see in it.                                                  *)

\* String.prototype.toLowerCase, word by word
LowerTab ==
  [w \in {"CAN", "Canada", "CZE", "USA", "Sweden", "Feb", "PM", "AM",
          "Final", "Quarterfinal", "Group", "Arena", "Czechia",
          "United", "States", "TBD", "Milano", "Cortina", "Preliminary",
          "NaN", "NaN:NaN", "SWE", "Swe", "Cze", "Usa", "XYZ", "SWEDEN",
          "CZECHIA", "Czech", "CZECH", "Republic", "REPUBLIC", "Atlantis",
          "Semifinal", "Quarter-final"} |->
     CASE w = "CAN" -> "can"
       [] w = "Canada" -> "canada"
       [] w = "CZE" -> "cze"
       [] w = "USA" -> "usa"
       [] w = "Sweden" -> "sweden"
       [] w = "Feb" -> "feb"
       [] w = "PM" -> "pm"
       [] w = "AM" -> "am"
       [] w = "Final" -> "final"
       [] w = "Quarterfinal" -> "quarterfinal"
       [] w = "Group" -> "group"
       [] w = "Arena" -> "arena"
       [] w = "Czechia" -> "czechia"
       [] w = "United" -> "united"
       [] w = "States" -> "states"
       [] w = "TBD" -> "tbd"
       [] w = "Milano" -> "milano"
       [] w = "Cortina" -> "cortina"
       [] w = "Preliminary" -> "preliminary"
       [] w = "NaN" -> "nan"
       [] w = "NaN:NaN" -> "nan:nan"
       [] w = "SWE" -> "swe"
       [] w = "Swe" -> "swe"
       [] w = "Cze" -> "cze"
       [] w = "Usa" -> "usa"
       [] w = "XYZ" -> "xyz"
       [] w = "SWEDEN" -> "sweden"
       [] w = "CZECHIA" -> "czechia"
       [] w = "Czech" -> "czech"
       [] w = "CZECH" -> "czech"
       [] w = "Republic" -> "republic"
       [] w = "REPUBLIC" -> "republic"
       [] w = "Atlantis" -> "atlantis"
       [] w = "Semifinal" -> "semifinal"
       [] w = "Quarter-final" -> "quarter-final"]

toLowerCase(s) == IF s \in DOMAIN LowerTab THEN LowerTab[s] ELSE s

\* toLowerCase of a text, word by word
LowerWords(ws) == [i \in 1..Len(ws) |-> toLowerCase(ws[i])]

\* words made of letters only, at least two of them: /[A-Z][a-z]+/i
AlphaWords == {"CAN", "can", "Canada", "CZE", "USA", "Sweden", "sweden", "vs",
               "Feb", "pm", "PM", "Final", "Quarterfinal", "Group", "Arena",
               "Semifinal"}
\* words made of capital letters only
UpperWords == {"CAN", "CZE", "USA", "TBD", "PM", "AM", "SWE", "XYZ", "SWEDEN",
               "CZECHIA", "CZECH", "REPUBLIC"}

IsAlpha(w) == w \in AlphaWords
\* /\b[A-Z]{3}\b/ and, with the i flag, /\b[A-Z]{3}\b/i
IsCode(w)  == w \in UpperWords /\ Len(w) = 3
IsAny3(w)  == w \in AlphaWords /\ Len(w) = 3
\* /vs\.?/i between white space
IsVs(w)    == toLowerCase(w) = "vs"
\* /\bcan\b/i
IsCan(w)   == toLowerCase(w) = "can"
\* the word contains "canada" in any letter case
HasCanada(w) == toLowerCase(w) = "canada"
\* /(?:feb|february)/i at the start of a word
IsFeb(w)   == toLowerCase(w) = "feb"

None == Num("", NaN)

\* the digits a word starts with, at most two of them: /(\d{1,2})/ anchored
\* at the start of the word
LeadNum(w) ==
  CASE w = "12" -> Num("12", 12)
    [] w = "12," -> Num("12", 12)
    [] w = "6" -> Num("6", 6)
    [] w = "06" -> Num("06", 6)
    [] w = "2026" -> Num("20", 20)
    [] w = "12/02/2026" -> Num("12", 12)
    [] w = "12/2/2026" -> Num("12", 12)
    [] w = "2026/02/12" -> Num("20", 20)
    [] w = "20:00" -> Num("20", 20)
    [] w = "8:00" -> Num("8", 8)
    [] w = "25:00" -> Num("25", 25)
    [] OTHER -> None

\* the digits a word ends with, at most two of them
TrailNum(w) ==
  CASE w = "12" -> Num("12", 12)
    [] w = "6" -> Num("6", 6)
    [] w = "06" -> Num("06", 6)
    [] w = "2026" -> Num("26", 26)
    [] w = "12/02/2026" -> Num("26", 26)
    [] w = "12/2/2026" -> Num("26", 26)
    [] w = "2026/02/12" -> Num("12", 12)
    [] w = "20:00" -> Num("00", 0)
    [] w = "8:00" -> Num("00", 0)
    [] w = "25:00" -> Num("00", 0)
    [] OTHER -> None

\* the groups of /(\d{1,2})[\/\-](\d{1,2})[\/\-]2026/ in a word
DmyGroups(w) ==
  CASE w = "12/02/2026" -> <<Num("12", 12), Num("02", 2)>>
    [] w = "12/2/2026" -> <<Num("12", 12), Num("2", 2)>>
    [] OTHER -> <<>>

\* the groups of /2026[\/\-](\d{1,2})[\/\-](\d{1,2})/ in a word
YmdGroups(w) ==
  CASE w = "2026/02/12" -> <<Num("02", 2), Num("12", 12)>>
    [] OTHER -> <<>>

\* the groups 1 and 2 of /(\d{1,2}):(\d{2})/ in a word
HmGroups(w) ==
  CASE w = "20:00" -> <<Num("20", 20), Num("00", 0)>>
    [] w = "8:00" -> <<Num("8", 8), Num("00", 0)>>
    [] w = "25:00" -> <<Num("25", 25), Num("00", 0)>>
    [] OTHER -> <<>>

\* /(am|pm|AM|PM)/ at the start of a word
LeadPeriod(w) == IF w \in {"am", "pm", "AM", "PM"} THEN w ELSE ""

\* the word starts with "2026"
Starts2026(w) == w \in {"2026", "2026/02/12"}
\* the word contains "2026"
Has2026(w) == w \in {"2026", "2026/02/12", "12/02/2026", "12/2/2026"}

\* words joined by single blanks
RECURSIVE Join(_)
Join(ws) == IF Len(ws) = 0 THEN ""
            ELSE IF Len(ws) = 1 THEN ws[1]
            ELSE ws[1] \o " " \o Join(Tail(ws))

\* concatenation of a sequence of word sequences
RECURSIVE Flatten(_)
Flatten(ss) == IF Len(ss) = 0 THEN <<>> ELSE ss[1] \o Flatten(Tail(ss))

\* least index in 1..n satisfying P, or 0
First(n, P(_)) == IF \E i \in 1..n : P(i)
                  THEN CHOOSE i \in 1..n : P(i) /\ \A j \in 1..(i - 1) : ~P(j)
                  ELSE 0

Word(text, i) == IF i >= 1 /\ i <= Len(text) THEN text[i] ELSE ""

---------------------------------------------------------------------------
(* Regular expressions of the extractors, over word sequences.  A match    *)
(* is [at |-> index of the word the leftmost match starts in (0: none),    *)
(* g |-> the captured groups].                                             *)

NoMatch == [at |-> 0, g |-> <<>>]

\* the match that starts at word i with the groups G(i)
MatchAt(i, G(_)) == IF i = 0 THEN NoMatch ELSE [at |-> i, g |-> G(i)]
\* the leftmost match of an expression that matches at the words P holds for
FirstMatch(text, P(_), G(_)) == MatchAt(First(Len(text), P), G)

\* a or, when a is empty (null), b
OrElse(a, b) == IF a # <<>> THEN a ELSE b

\* a word that is /\d{1,2},?/ as a whole
IsDayWord(w) == w \in {"12", "12,", "6", "06"}

\* /(?:feb|february)\s+(\d{1,2}),?\s+2026/i
FebDayYearAt(text, i) ==
  /\ IsFeb(Word(text, i))
  /\ IsDayWord(Word(text, i + 1))
  /\ Starts2026(Word(text, i + 2))
MatchFebDayYear(text) ==
  FirstMatch(text, LAMBDA k : FebDayYearAt(text, k), LAMBDA i : <<LeadNum(text[i + 1])>>)

\* /(\d{1,2})\s+(?:feb|february),?\s+2026/i
DayFebYearAt(text, i) ==
  /\ TrailNum(Word(text, i)) # None
  /\ IsFeb(Word(text, i + 1))
  /\ Starts2026(Word(text, i + 2))
MatchDayFebYear(text) ==
  FirstMatch(text, LAMBDA k : DayFebYearAt(text, k), LAMBDA i : <<TrailNum(text[i])>>)

\* /(?:feb|february)\s+(\d{1,2})/i
FebDayAt(text, i) == IsFeb(Word(text, i)) /\ LeadNum(Word(text, i + 1)) # None
MatchFebDay(text) ==
  FirstMatch(text, LAMBDA k : FebDayAt(text, k), LAMBDA i : <<LeadNum(text[i + 1])>>)

\* /(\d{1,2})\s+(?:feb|february)/i
DayFebAt(text, i) == TrailNum(Word(text, i)) # None /\ IsFeb(Word(text, i + 1))
MatchDayFeb(text) ==
  FirstMatch(text, LAMBDA k : DayFebAt(text, k), LAMBDA i : <<TrailNum(text[i])>>)

\* /(\d{1,2})[\/\-](\d{1,2})[\/\-]2026/
MatchDmy(text) ==
  FirstMatch(text, LAMBDA k : DmyGroups(text[k]) # <<>>, LAMBDA i : DmyGroups(text[i]))

\* /2026[\/\-](\d{1,2})[\/\-](\d{1,2})/
MatchYmd(text) ==
  FirstMatch(text, LAMBDA k : YmdGroups(text[k]) # <<>>, LAMBDA i : YmdGroups(text[i]))

\* /(?:feb|february)\s+\d{1,2}/i or /\d{1,2}[\/\-]\d{1,2}[\/\-]2026/
HasDatePattern(text) ==
  \E i \in 1..Len(text) : FebDayAt(text, i) \/ DmyGroups(text[i]) # <<>>
\* /\d{1,2}:\d{2}/
HasTimePattern(text) == \E i \in 1..Len(text) : HmGroups(text[i]) # <<>>

\* the timeStr of a match of /(\d{1,2}):(\d{2})\s*(am|pm|AM|PM)?/ in word i,
\* with the white space the \s* takes when more text follows
TimeOf(hm, ws, p) == Time(hm[1], hm[2], ws, p)
TimeAt(text, i) ==
  IF i = 0 THEN NoTime("")
  ELSE IF i = Len(text) THEN TimeOf(HmGroups(text[i]), "", "")
  ELSE TimeOf(HmGroups(text[i]), " ", LeadPeriod(text[i + 1]))
MatchTime(text) == TimeAt(text, First(Len(text), LAMBDA k : HmGroups(text[k]) # <<>>))

\* isCanadaGame: /\bcan\b/i.test(text) || lower.includes('canada')
isCanadaGame(text) == \E i \in 1..Len(text) : IsCan(text[i]) \/ HasCanada(text[i])

\* the date alternation of extractGameFromRow and of strategy 4:
\* /(?:feb|february)\s+(\d{1,2}),?\s+2026|(\d{1,2})[\/\-](\d{1,2})[\/\-]2026
\*  |2026[\/\-](\d{1,2})[\/\-](\d{1,2})/i ; g holds groups 1..5 (None: unset)
DateAltAt(text, i) ==
  \/ FebDayYearAt(text, i)
  \/ DmyGroups(Word(text, i)) # <<>>
  \/ YmdGroups(Word(text, i)) # <<>>
DmyAlt(g) == <<None, g[1], g[2], None, None>>
YmdAlt(g) == <<None, None, None, g[1], g[2]>>
DateAltGroups(text, i) ==
  IF FebDayYearAt(text, i) THEN <<LeadNum(text[i + 1]), None, None, None, None>>
  ELSE IF DmyGroups(text[i]) # <<>> THEN DmyAlt(DmyGroups(text[i]))
  ELSE YmdAlt(YmdGroups(text[i]))
MatchDateAlt(text) ==
  FirstMatch(text, LAMBDA k : DateAltAt(text, k), LAMBDA i : DateAltGroups(text, i))

Feb == Num("02", 2)
Y2026 == Num("2026", 2026)
NoDate == <<>>

\* the dateStr the alternation's groups give (extractGameFromRow, strategy 4)
DateOfAlt(m) ==
  IF m.at = 0 THEN NoDate
  ELSE IF m.g[1] # None THEN <<m.g[1], Feb, Y2026>>
  ELSE IF m.g[2] # None /\ m.g[3] # None THEN <<m.g[2], m.g[3], Y2026>>
  ELSE IF m.g[4] # None /\ m.g[5] # None THEN <<m.g[5], m.g[4], Y2026>>
  ELSE NoDate

---------------------------------------------------------------------------
(* Team names.  A name (opponent, venue) is the sequence of its words,     *)
(* rendered by Join.                                                       *)

\* expandCountryCode: codeMap[code] || code
expandCountryCode(code) ==
  CASE code = <<"USA">> -> <<"United", "States">>
    [] code = <<"SWE">> -> <<"Sweden">>
    [] code = <<"FIN">> -> <<"Finland">>
    [] code = <<"CZE">> -> <<"Czechia">>
    [] code = <<"SVK">> -> <<"Slovakia">>
    [] code = <<"SUI">> -> <<"Switzerland">>
    [] code = <<"GER">> -> <<"Germany">>
    [] code = <<"NOR">> -> <<"Norway">>
    [] code = <<"DEN">> -> <<"Denmark">>
    [] code = <<"LAT">> -> <<"Latvia">>
    [] code = <<"AUT">> -> <<"Austria">>
    [] code = <<"FRA">> -> <<"France">>
    [] code = <<"GBR">> -> <<"Great", "Britain">>
    [] code = <<"RUS">> -> <<"ROC">>
    [] code = <<"ROC">> -> <<"ROC">>
    [] OTHER -> code

\* opponent.length === 3 && opponent === opponent.toUpperCase()
IsCodeName(o) == Len(o) = 1 /\ IsCode(o[1])

\* the function Object, which is not a string: the value of the inherited
\* property 'constructor' of an object literal
ObjectConstructor == <<"[Function: Object]">>
IsString(o) == o # ObjectConstructor

\* normalizations[lower] || opponent; the property lookup goes through the
\* prototype chain of the object literal
Normalization(lower, opponent) ==
  CASE lower = <<"czech", "republic">> -> <<"Czechia">>
    [] lower = <<"czechia">> -> <<"Czechia">>
    [] lower = <<"usa">> -> <<"United", "States">>
    [] lower = <<"us">> -> <<"United", "States">>
    [] lower = <<"uk">> -> <<"Great", "Britain">>
    [] lower = <<"great", "britain">> -> <<"Great", "Britain">>
    [] lower = <<"russia">> -> <<"ROC">>
    [] lower = <<"russian", "federation">> -> <<"ROC">>
    [] lower = <<"switzerland">> -> <<"Switzerland">>
    [] lower = <<"sweden">> -> <<"Sweden">>
    [] lower = <<"finland">> -> <<"Finland">>
    [] lower = <<"slovakia">> -> <<"Slovakia">>
    [] lower = <<"germany">> -> <<"Germany">>
    [] lower = <<"norway">> -> <<"Norway">>
    [] lower = <<"denmark">> -> <<"Denmark">>
    [] lower = <<"constructor">> -> ObjectConstructor
    [] OTHER -> opponent

\* normalizeOpponent
normalizeOpponent(opponent) ==
  IF IsCodeName(opponent) THEN expandCountryCode(opponent)
  ELSE Normalization(LowerWords(opponent), opponent)

NoName == <<>>

---------------------------------------------------------------------------
(* Opponent, venue and round extractors                                    *)

\* the six vsPatterns of extractGameFromIIHFTableRow (1..4 are also the first
\* four gamePatterns of strategy 4); each gives the word of its group 1
VsPatternAt(n, text, i) ==
  CASE n = 1 -> IsAny3(Word(text, i)) /\ IsVs(Word(text, i + 1)) /\ IsCan(Word(text, i + 2))
    [] n = 2 -> IsCan(Word(text, i)) /\ IsVs(Word(text, i + 1)) /\ IsAny3(Word(text, i + 2))
    [] n = 3 -> IsAny3(Word(text, i)) /\ Word(text, i + 1) = "-" /\ IsCan(Word(text, i + 2))
    [] n = 4 -> IsCan(Word(text, i)) /\ Word(text, i + 1) = "-" /\ IsAny3(Word(text, i + 2))
    [] n = 5 -> IsAny3(Word(text, i)) /\ IsCan(Word(text, i + 1))
    [] n = 6 -> IsCan(Word(text, i)) /\ IsAny3(Word(text, i + 1))

VsPatternGroup(n, text, i) ==
  IF i = 0 THEN ""
  ELSE CASE n \in {1, 3, 5} -> text[i]
         [] n \in {2, 4} -> text[i + 2]
         [] n = 6 -> text[i + 1]

\* text.match(vsPatterns[n]): group 1 of the leftmost match, or ""
MatchVs(n, text) ==
  VsPatternGroup(n, text, First(Len(text), LAMBDA k : VsPatternAt(n, text, k)))

\* the first of the patterns n..last that matches gives the opponent
RECURSIVE VsOpponentFrom(_, _, _)
VsOpponentOr(code, n, last, text) ==
  IF code # "" THEN expandCountryCode(<<code>>) ELSE VsOpponentFrom(n + 1, last, text)
VsOpponentFrom(n, last, text) ==
  IF n > last THEN NoName ELSE VsOpponentOr(MatchVs(n, text), n, last, text)

\* text.match(/\b([A-Z]{3})\b/g) then find(code => code !== 'CAN')
CodeAt(text, i) == IF i = 0 THEN NoName ELSE expandCountryCode(<<text[i]>>)
OtherCode(text) ==
  CodeAt(text, First(Len(text), LAMBDA k : IsCode(text[k]) /\ text[k] # "CAN"))

\* the opponent one text gives: the vs patterns, then any other code
OpponentOfText(text) == OrElse(VsOpponentFrom(1, 6, text), OtherCode(text))

\* words i..j of a text
Slice(text, i, j) == [k \in 1..(j - i + 1) |-> text[i + k - 1]]

AllAlpha(text, i, j) == \A k \in i..j : IsAlpha(Word(text, k))

\* the greedy /[A-Z][a-z]+(?:\s+[A-Z][a-z]+)*/i starting at word i: its last word
RunEnd(text, i) ==
  CHOOSE j \in i..Len(text) : AllAlpha(text, i, j) /\ ~IsAlpha(Word(text, j + 1))

IsV(w) == toLowerCase(w) \in {"v", "v."}

\* the prefixes of the first opponent expression of extractGameFromRow that a
\* text of whole words can match, ending right before word i:
\* canada\s+vs\.?\s+ | canada\s+v\.?\s+ | can\s+vs\.?\s+
\* (vs\.?\s+canada and vs\.?\s+can\b need letters glued to the team name)
RowPrefixBefore(text, i, withCan) ==
  \/ HasCanada(Word(text, i - 2)) /\ IsVs(Word(text, i - 1))
  \/ HasCanada(Word(text, i - 2)) /\ IsV(Word(text, i - 1))
  \/ withCan /\ IsCan(Word(text, i - 2)) /\ IsVs(Word(text, i - 1))

\* (prefix)([A-Z][a-z]+(?:\s+[A-Z][a-z]+)*) : group 1 of the leftmost match
RunFrom(text, i) == IF i = 0 THEN NoName ELSE Slice(text, i, RunEnd(text, i))
MatchTeamAfter(text, withCan) ==
  RunFrom(text, First(Len(text), LAMBDA k : RowPrefixBefore(text, k, withCan) /\ IsAlpha(text[k])))

\* ([A-Z][a-z]+(?:\s+[A-Z][a-z]+)*)\s+vs\.?\s+(?:canada|can\b) : the run of words
\* i..j is followed by vs and the tracked team
TeamBeforeAt(text, i, j, withCan) ==
  /\ AllAlpha(text, i, j)
  /\ IsVs(Word(text, j + 1))
  /\ HasCanada(Word(text, j + 2)) \/ (withCan /\ IsCan(Word(text, j + 2)))

\* the longest run from word i that the backtracking accepts
LongestRun(text, i, withCan) ==
  CHOOSE j \in i..Len(text) :
    /\ TeamBeforeAt(text, i, j, withCan)
    /\ \A k \in (j + 1)..Len(text) : ~TeamBeforeAt(text, i, k, withCan)

TeamRunFrom(text, i, withCan) ==
  IF i = 0 THEN [at |-> 0, j |-> 0] ELSE [at |-> i, j |-> LongestRun(text, i, withCan)]

\* leftmost start, then the longest run
MatchTeamBefore(text, withCan) ==
  TeamRunFrom(text,
              First(Len(text), LAMBDA k : \E j \in k..Len(text) : TeamBeforeAt(text, k, j, withCan)),
              withCan)

TeamOf(text, m) == IF m.at = 0 THEN NoName ELSE Slice(text, m.at, m.j)
TeamBefore(text, withCan) == TeamOf(text, MatchTeamBefore(text, withCan))

\* the two opponent expressions for full team names
NameOpponent(text, withCan) ==
  OrElse(MatchTeamAfter(text, withCan), TeamBefore(text, withCan))

\* the round keyword tests on the lower-cased text, in the code's order
HasWordIn(text, S) == \E i \in 1..Len(text) : toLowerCase(text[i]) \in S
HasPairIn(text, a, b) ==
  \E i \in 1..(Len(text) - 1) : toLowerCase(text[i]) = a /\ toLowerCase(text[i + 1]) = b

\* extractVenue: the first listed venue the lower-cased text includes
extractVenue(text) ==
  IF HasPairIn(text, "milano", "rho") THEN <<"Milano", "Rho">>
  ELSE IF HasPairIn(text, "milano", "cortina") THEN <<"Milano", "Cortina">>
  ELSE IF HasWordIn(text, {"arena"}) THEN <<"Arena">>
  ELSE IF HasWordIn(text, {"stadium"}) THEN <<"Stadium">>
  ELSE IF HasWordIn(text, {"pala", "palasport"}) THEN <<"Pala">>
  ELSE NoName

DefaultVenue == <<"Milano", "Cortina", "2026">>

\* the words /\bfinal\b/ matches in
FinalWords == {"final", "quarter-final", "semi-final"}

\* a chain that tests the final keywords first
RoundFinalFirst(text) ==
  IF \/ HasWordIn(text, FinalWords)
     \/ HasPairIn(text, "gold", "medal")
     \/ HasPairIn(text, "bronze", "medal") THEN "Final"
  ELSE IF HasWordIn(text, {"qualifying", "qualification", "qual"}) THEN "Qualifying"
  ELSE IF HasWordIn(text, {"quarterfinal", "quarter-final", "qf", "q.f."}) THEN "Quarterfinal"
  ELSE IF HasWordIn(text, {"semifinal", "semi-final", "sf", "s.f."}) THEN "Semifinal"
  ELSE "Preliminary"

RoundOfText(text) ==
  IF HasWordIn(text, {"qualifying", "qualification", "qual"}) THEN "Qualifying"
  ELSE IF HasWordIn(text, {"quarterfinal", "quarter-final", "qf", "q.f."}) THEN "Quarterfinal"
  ELSE IF HasWordIn(text, {"semifinal", "semi-final", "sf", "s.f."}) THEN "Semifinal"
  ELSE IF \/ HasWordIn(text, FinalWords)
          \/ HasPairIn(text, "gold", "medal")
          \/ HasPairIn(text, "bronze", "medal") THEN "Final"
  ELSE "Preliminary"

\* the parent-element round tests of extractGameFromIIHFTableRow
RoundOfParent(text) ==
  IF HasWordIn(text, {"qualifying", "qualification", "qual"}) THEN "Qualifying"
  ELSE IF HasWordIn(text, {"quarterfinal", "quarter-final", "qf"}) THEN "Quarterfinal"
  ELSE IF HasWordIn(text, {"semifinal", "semi-final", "sf"}) THEN "Semifinal"
  ELSE IF HasWordIn(text, FinalWords \cup {"gold", "bronze"}) THEN "Final"
  ELSE "Preliminary"

---------------------------------------------------------------------------
(* HTML documents                                                          *)
(*                                                                         *)
(* A document is [isIIHF, rows, divs, ld]: whether the source URL includes *)
(* 'iihf.com'; the rows of its one table (none: no table), each row the    *)
(* sequence of its td/th cells; its containers <div class="game"> with     *)
(* their <span> children; and its JSON-LD items.  The text of an element   *)
(* is the words of its cells in order.                                     *)

TextOf(row) == Flatten(row)
TableText(rows) == Flatten([i \in 1..Len(rows) |-> TextOf(rows[i])])

Candidate(d, t, o, v, r, raw) ==
  [dateStr |-> d, timeStr |-> t, opponent |-> o, venue |-> v, round |-> r, rawText |-> raw]

NoGame == <<>>

\* the record returned whatever fields were found
GameAlways(dateStr, timeStr, opponent, venue, round, rawText) ==
  <<Candidate(dateStr, timeStr, opponent, venue, round, rawText)>>

\* `if (dateStr && timeStr && opponent) return {...}; return null`
GameOrNull(dateStr, timeStr, opponent, venue, round, rawText) ==
  IF dateStr # NoDate /\ timeStr.ok /\ opponent # NoName
  THEN <<Candidate(dateStr, timeStr, opponent, venue, round, rawText)>>
  ELSE NoGame

\* one pass of extractGameFromIIHFTableRow's datePatterns over a text: the
\* first pattern whose match passes the day / month range test gives the date
OneGroupDate(m) ==
  IF m.at # 0 /\ parseInt(m.g[1]) >= 1 /\ parseInt(m.g[1]) <= 31
  THEN <<NumOf(parseInt(m.g[1])), Feb, Y2026>> ELSE NoDate

TwoGroupDate(m) ==
  IF /\ m.at # 0
     /\ parseInt(m.g[1]) >= 1 /\ parseInt(m.g[1]) <= 31
     /\ parseInt(m.g[2]) >= 1 /\ parseInt(m.g[2]) <= 12
  THEN <<NumOf(parseInt(m.g[1])), NumOf(parseInt(m.g[2])), Y2026>> ELSE NoDate

\* the first non-empty item of a sequence, or the empty one
ItemAt(q, i) == IF i = 0 THEN <<>> ELSE q[i]
FirstNonEmpty(q) == ItemAt(q, First(Len(q), LAMBDA k : q[k] # <<>>))

IIHFDateOfText(text) ==
  FirstNonEmpty(<< OneGroupDate(MatchFebDayYear(text)),
                   OneGroupDate(MatchDayFebYear(text)),
                   OneGroupDate(MatchFebDay(text)),
                   OneGroupDate(MatchDayFeb(text)),
                   TwoGroupDate(MatchDmy(text)),
                   TwoGroupDate(MatchYmd(text)) >>)

\* "try cells first, then row text"
IIHFDate(cells, rowText) ==
  OrElse(FirstNonEmpty([i \in 1..Len(cells) |-> IIHFDateOfText(cells[i])]),
         IIHFDateOfText(rowText))

TimeOr(i, times, other) == IF i # 0 THEN times[i] ELSE other
FirstTime(times, other) == TimeOr(First(Len(times), LAMBDA k : times[k].ok), times, other)
IIHFTime(cells, rowText) ==
  FirstTime([i \in 1..Len(cells) |-> MatchTime(cells[i])], MatchTime(rowText))

IIHFOpponent(cells, rowText) ==
  OrElse(FirstNonEmpty([i \in 1..Len(cells) |-> OpponentOfText(cells[i])]),
         OpponentOfText(rowText))

\* "check parent elements for round info" when the row gives 'Preliminary'
RoundOr(round, parentText) ==
  IF round = "Preliminary" THEN RoundOfParent(parentText) ELSE round

\* extractGameFromIIHFTableRow($row, cells, rowText, $); parentText is the text
\* of $row.closest('table, [class*="round"], [class*="phase"]')
extractGameFromIIHFTableRow(cells, rowText, parentText) ==
  GameOrNull(IIHFDate(cells, rowText), IIHFTime(cells, rowText),
             IIHFOpponent(cells, rowText),
             OrElse(extractVenue(rowText), DefaultVenue),
             RoundOr(RoundOfText(rowText), parentText), rowText)

\* the opponent of extractGameFromRow
RowOpponent(rowText, isIIHF) ==
  OrElse(IF isIIHF THEN OtherCode(rowText) ELSE NoName, NameOpponent(rowText, TRUE))

\* extractGameFromRow($row, rowText, isIIHF); cells are $row.find('td, th')
extractGameFromRow(cells, rowText, isIIHF) ==
  IF Len(cells) = 0 THEN NoGame
  ELSE GameOrNull(DateOfAlt(MatchDateAlt(rowText)), MatchTime(rowText),
                  RowOpponent(rowText, isIIHF),
                  OrElse(extractVenue(rowText), DefaultVenue),
                  RoundOfText(rowText), rowText)

---------------------------------------------------------------------------
(* parseSchedule: strategies 1 to 3                                        *)

\* number of /\b[A-Z]{3}\b/g matches
CodeCount(text) == Cardinality({i \in 1..Len(text) : IsCode(text[i])})

\* /\b[A-Z]{3}\s+vs\.?\s+[A-Z]{3}\b/i
HasCodeVsCode(text) ==
  \E i \in 1..Len(text) :
    IsAny3(text[i]) /\ IsVs(Word(text, i + 1)) /\ IsAny3(Word(text, i + 2))
\* /\b[A-Z]{3}\s+-\s+[A-Z]{3}\b/i
HasCodeDashCode(text) ==
  \E i \in 1..Len(text) :
    IsAny3(text[i]) /\ Word(text, i + 1) = "-" /\ IsAny3(Word(text, i + 2))

\* hasScheduleData of the IIHF table loop
IIHFTableHasScheduleData(text) ==
  HasDatePattern(text) \/ HasTimePattern(text) \/ CodeCount(text) >= 2

\* hasScheduleData of the non-IIHF table loop
TableHasScheduleData(text) ==
  isCanadaGame(text) \/ HasDatePattern(text) \/ HasTimePattern(text)

\* the row text the IIHF loop hands to the extractor: the text of the row,
\* with the previous and the next row's text joined to it when the row
\* mentions Canada, lacks a date or a time, and that neighbour holds a date
NeedsNeighbours(own) ==
  isCanadaGame(own) /\ (~HasDatePattern(own) \/ ~HasTimePattern(own))
Joined(prev, own, next, needs) ==
  (IF needs /\ HasDatePattern(prev) THEN prev ELSE <<>>)
    \o own \o (IF needs /\ HasDatePattern(next) THEN next ELSE <<>>)
IIHFRowText(rows, i) ==
  Joined(IF i > 1 THEN TextOf(rows[i - 1]) ELSE <<>>,
         TextOf(rows[i]),
         IF i < Len(rows) THEN TextOf(rows[i + 1]) ELSE <<>>,
         NeedsNeighbours(TextOf(rows[i])))

\* if (!hasCanada && !hasGamePattern) return
IIHFRowSkipped(own) ==
  ~isCanadaGame(own) /\ ~(HasCodeVsCode(own) \/ HasCodeDashCode(own))

\* the body of the IIHF row loop for row i
IIHFTableRow(rows, i) ==
  IF IIHFRowSkipped(TextOf(rows[i])) THEN NoGame
  ELSE extractGameFromIIHFTableRow(rows[i], IIHFRowText(rows, i), TableText(rows))

\* the body of the non-IIHF row loop for row i
TableRow(rows, i) ==
  IF ~isCanadaGame(TextOf(rows[i])) THEN NoGame
  ELSE extractGameFromRow(rows[i], TextOf(rows[i]), FALSE)

\* strategy 1
Strategy1(d) ==
  IF Len(d.rows) = 0 THEN <<>>
  ELSE IF d.isIIHF
  THEN IF ~IIHFTableHasScheduleData(TableText(d.rows)) THEN <<>>
       ELSE Flatten([i \in 1..Len(d.rows) |-> IIHFTableRow(d.rows, i)])
  ELSE IF ~TableHasScheduleData(TableText(d.rows)) THEN <<>>
       ELSE Flatten([i \in 1..Len(d.rows) |-> TableRow(d.rows, i)])

\* strategy 2 for one container; its children are spans, so $elem.find('td, th')
\* is empty and extractGameFromElement has no cells; it has no enclosing
\* table or round / phase element
IIHFContainerGame(div, text) ==
  IF isCanadaGame(text) /\ (HasDatePattern(text) \/ HasTimePattern(text)
                              \/ HasCodeVsCode(text))
  THEN OrElse(extractGameFromIIHFTableRow(div, text, <<>>),
              extractGameFromRow(<<>>, text, TRUE))
  ELSE NoGame
IIHFContainer(div) == IIHFContainerGame(div, TextOf(div))

ContainerGame(text) ==
  IF isCanadaGame(text) /\ (HasDatePattern(text) \/ HasTimePattern(text))
  THEN extractGameFromRow(<<>>, text, FALSE)
  ELSE NoGame
Container(div) == ContainerGame(TextOf(div))

Strategy2(d) ==
  IF d.isIIHF THEN Flatten([i \in 1..Len(d.divs) |-> IIHFContainer(d.divs[i])])
  ELSE Flatten([i \in 1..Len(d.divs) |-> Container(d.divs[i])])

\* extractOpponentFromName
extractOpponentFromName(name) == NameOpponent(name, FALSE)

\* the record extractGameFromStructuredData returns; data.start is "none" (no
\* startDate or startTime), "invalid" (new Date gives an invalid date) or the
\* local fields of the date, which getDate / getMonth / getFullYear /
\* getHours / getMinutes give back
StructuredGame(data, opponent, venue) ==
  IF data.start.kind = "none" \/ opponent = NoName THEN NoGame
  ELSE IF data.start.kind = "invalid"
  THEN <<Candidate(<<Num("NaN", NaN), Num("NaN", NaN), Num("NaN", NaN)>>,
                   NoTime("NaN:NaN"), opponent, venue, "Preliminary", data.name)>>
  ELSE <<Candidate(<<NumOf(data.start.f.day), NumOf(data.start.f.month),
                     NumOf(data.start.f.year)>>,
                   Time(NumOf(data.start.f.hour), Num2(data.start.f.minute), "", ""),
                   opponent, venue, "Preliminary", data.name)>>

extractGameFromStructuredData(data) ==
  IF ~(\E i \in 1..Len(data.name) : HasCanada(data.name[i])) THEN NoGame
  ELSE StructuredGame(data, extractOpponentFromName(data.name),
                      OrElse(data.location, DefaultVenue))

\* strategy 3
StructuredItem(data) ==
  IF data.type \in {"SportsEvent", "Event"} THEN extractGameFromStructuredData(data)
  ELSE NoGame

Strategy3(d) == Flatten([i \in 1..Len(d.ld) |-> StructuredItem(d.ld[i])])

---------------------------------------------------------------------------
(* parseSchedule: strategy 4, the duplicate filter and the ids             *)

\* $('body').find('*') in document order: the table, each row and its cells,
\* then each container and its spans (the JSON-LD scripts are in the head)
BodyElements(d) ==
  (IF Len(d.rows) = 0 THEN <<>>
   ELSE <<TableText(d.rows)>>
          \o Flatten([i \in 1..Len(d.rows) |-> <<TextOf(d.rows[i])>> \o d.rows[i]]))
  \o Flatten([i \in 1..Len(d.divs) |-> <<TextOf(d.divs[i])>> \o d.divs[i]])

IsTracked(w) == HasCanada(w) \/ IsCan(w)

\* gamePatterns 5 and 7 at word i: (?:canada|can\b)\s+vs\.?\s+(run), v\.? for 7
NameAfterAt(n, text, i) ==
  /\ IsTracked(Word(text, i))
  /\ IF n = 5 THEN IsVs(Word(text, i + 1)) ELSE IsV(Word(text, i + 1))
  /\ IsAlpha(Word(text, i + 2))

GSpan(at, to) == [at |-> at, to |-> to]
NameAfterSpan(text, i) == IF i = 0 THEN GSpan(0, 0) ELSE GSpan(i, RunEnd(text, i + 2))
NameBeforeSpan(m) == IF m.at = 0 THEN GSpan(0, 0) ELSE GSpan(m.at, m.j + 2)

\* the leftmost match of gamePatterns[n], n in 5..7, as the words at..to
GMatch(n, text) ==
  IF n = 6 THEN NameBeforeSpan(MatchTeamBefore(text, TRUE))
  ELSE NameAfterSpan(text, First(Len(text), LAMBDA k : NameAfterAt(n, text, k)))

\* String.prototype.replace(re, '') for an expression that spans two words
\* P(a, b), with white space required before it (nb) or after it (na)
CutPair(ws, i) ==
  IF i = 0 THEN ws ELSE Slice(ws, 1, i - 1) \o Slice(ws, i + 2, Len(ws))
RemovePair(ws, P(_, _), nb, na) ==
  CutPair(ws, First(Len(ws), LAMBDA k : /\ k < Len(ws) /\ P(ws[k], ws[k + 1])
                                        /\ (nb => k > 1) /\ (na => k + 1 < Len(ws))))

TrackedVs(a, b) == IsTracked(a) /\ IsVs(b)
VsTracked(a, b) == IsVs(a) /\ IsTracked(b)
CanVs(a, b) == IsCan(a) /\ IsVs(b)
VsCan(a, b) == IsVs(a) /\ IsCan(b)
CanDash(a, b) == IsCan(a) /\ b = "-"
DashCan(a, b) == a = "-" /\ IsCan(b)

\* the chain of six replaces applied to opponentMatch[0]
StripTracked(ws) ==
  RemovePair(
    RemovePair(
      RemovePair(
        RemovePair(
          RemovePair(
            RemovePair(ws, TrackedVs, FALSE, TRUE),
            VsTracked, TRUE, FALSE),
          CanVs, FALSE, TRUE),
        VsCan, TRUE, FALSE),
      CanDash, FALSE, TRUE),
    DashCan, TRUE, FALSE)

\* whether text.match(gamePatterns[n]) is a match
GamePatternMatches(n, text) ==
  IF n <= 4 THEN MatchVs(n, text) # "" ELSE GMatch(n, text).at # 0

\* opponentMatch[1], or the stripped opponentMatch[0] when it is undefined.
\* Patterns 1..4 give their group.  Patterns 5..7 carry the g flag, so the
\* match is the list of all full matches and [1] is the second of them.
SecondOr(rest, m2, first) ==
  IF m2.at # 0 THEN Slice(rest, m2.at, m2.to) ELSE StripTracked(first)
SecondIn(n, rest, first) == SecondOr(rest, GMatch(n, rest), first)
SecondAfter(n, text, m1) ==
  SecondIn(n, Slice(text, m1.to + 1, Len(text)), Slice(text, m1.at, m1.to))
GameOpponent(n, text) ==
  IF n <= 4 THEN <<MatchVs(n, text)>> ELSE SecondAfter(n, text, GMatch(n, text))

\* opponent.length === 3 && upper case: expandCountryCode
ExpandIfCode(o) == IF IsCodeName(o) THEN expandCountryCode(o) ELSE o

\* the body of strategy 4's loop for one element text, n the first of the
\* gamePatterns that matches
FreeTextMatch(text, dateMatch, timeMatch, n) ==
  IF n = 0 \/ dateMatch.at = 0 \/ ~timeMatch.ok THEN NoGame
  ELSE <<Candidate(DateOfAlt(dateMatch), timeMatch, ExpandIfCode(GameOpponent(n, text)),
                   OrElse(extractVenue(text), DefaultVenue), RoundOfText(text), text)>>

FreeTextGame(text) ==
  IF ~isCanadaGame(text) THEN NoGame
  ELSE IF ~(\E i \in 1..Len(text) : IsFeb(text[i]) \/ Has2026(text[i])) THEN NoGame
  ELSE FreeTextMatch(text, MatchDateAlt(text), MatchTime(text),
                     First(7, LAMBDA k : GamePatternMatches(k, text)))

Strategy4(d) ==
  Flatten([i \in 1..Len(BodyElements(d)) |-> FreeTextGame(BodyElements(d)[i])])

\* the four strategies run one after the other, whatever the first three gave
AllStrategies(d) == Strategy1(d) \o Strategy2(d) \o Strategy3(d) \o Strategy4(d)

\* the games array before the duplicate filter
Candidates(d) == OrElse(Strategy1(d) \o Strategy2(d) \o Strategy3(d), Strategy4(d))

\* `${game.dateStr}-${game.timeStr}-${game.opponent}` without .toLowerCase()
LowerDate(d) == JoinSlash([i \in 1..Len(d) |-> Num(toLowerCase(d[i].txt), d[i].val)])
LowerTime(t) == IF t.ok THEN t.h.txt \o ":" \o t.mi.txt \o t.ws \o LowerPeriod(t.p)
                ELSE toLowerCase(t.raw)
CaseSensitiveKey(game) ==
  DateText(game.dateStr) \o "-" \o TimeText(game.timeStr) \o "-" \o Join(game.opponent)

\* `${game.dateStr}-${game.timeStr}-${game.opponent}`.toLowerCase()
GameKey(game) ==
  LowerDate(game.dateStr) \o "-" \o LowerTime(game.timeStr) \o "-"
    \o Join(LowerWords(game.opponent))

\* the forEach with the seen set: a game is pushed when no earlier game of
\* the list has its key
RECURSIVE RemoveDuplicates(_, _)
\* the unseen game put behind the games that follow it
KeepUnseenLast(game, key, rest, seen) ==
  IF key \in seen THEN RemoveDuplicates(rest, seen)
  ELSE RemoveDuplicates(rest, seen \cup {key}) \o <<game>>
KeepUnseen(game, key, rest, seen) ==
  IF key \in seen THEN RemoveDuplicates(rest, seen)
  ELSE <<game>> \o RemoveDuplicates(rest, seen \cup {key})
RemoveDuplicates(gs, seen) ==
  IF Len(gs) = 0 THEN <<>> ELSE KeepUnseen(gs[1], GameKey(gs[1]), Tail(gs), seen)

\* `${dateStr}-${timeStr}-${opponent}-${venue}-${round}`
uidString(game) ==
  DateText(game.dateStr) \o "-" \o TimeText(game.timeStr) \o "-"
    \o Join(game.opponent) \o "-" \o Join(game.venue) \o "-" \o game.round

\* the first 12 hex digits of the md5 digest, kept as the digest's input:
\* equal inputs give equal digests, different inputs are taken to differ
md5hex12(s) == "md5(" \o s \o ")"

\* an id that hashes the rawText too
GameIdOfRawText(game) ==
  "mc2026-can-men-" \o md5hex12(uidString(game) \o "-" \o Join(game.rawText))

GameId(game) == "mc2026-can-men-" \o md5hex12(uidString(game))

WithId(game) ==
  [dateStr |-> game.dateStr, timeStr |-> game.timeStr, opponent |-> game.opponent,
   venue |-> game.venue, round |-> game.round, rawText |-> game.rawText,
   id |-> GameId(game)]

\* the dedup pass and the id assignment on the games array
Identified(games, unique) ==
  [games |-> games, returned |-> [i \in 1..Len(unique) |-> WithId(unique[i])]]
FromGames(games) == Identified(games, RemoveDuplicates(games, {}))

\* what .html() gives: null for an empty selection, else the markup (kept as
\* its text)
Html(present, text) == [present |-> present, text |-> text]
\* $('body').text(); cheerio.load(html) gives every document a body
BodyText(d) == TableText(d.rows) \o Flatten([i \in 1..Len(d.divs) |-> TextOf(d.divs[i])])

\* the sample taken from the first table alone: .substring on null throws
SampleOfTable(table, body) ==
  [threw |-> ~table.present, html |-> table.text]
\* `$('table').first().html() || $('body').html().substring(0, 2000)`, then
\* sampleHTML.substring(0, 1000): null and '' are falsy
SampleHTML(table, body) ==
  IF table.present /\ table.text # <<>> THEN [threw |-> FALSE, html |-> table.text]
  ELSE [threw |-> ~body.present, html |-> body.text]

\* the debug block `if (uniqueGames.length === 0 && isIIHF)`: whether it runs,
\* whether it throws, and the uniqueGames array after it (it only reads the
\* page and logs)
NoDiagnostics(unique) == [ran |-> FALSE, threw |-> FALSE, unique |-> unique]
Diagnostics(d, unique) ==
  IF Len(unique) = 0 /\ d.isIIHF
  THEN [ran |-> TRUE,
        threw |-> SampleHTML(Html(Len(d.rows) > 0, TableText(d.rows)),
                             Html(TRUE, BodyText(d))).threw,
        unique |-> unique]
  ELSE NoDiagnostics(unique)

\* the id assignment after the debug block; nothing is returned on a throw
AfterDiagnostics(games, dbg) ==
  [games |-> games, threw |-> dbg.threw,
   returned |-> IF dbg.threw THEN <<>> ELSE Identified(games, dbg.unique).returned]

\* parseSchedule(html, sourceUrl): the returned list, along with the games
\* array it was built from and whether the call threw
parseSchedule(d) ==
  AfterDiagnostics(Candidates(d), Diagnostics(d, RemoveDuplicates(Candidates(d), {})))

---------------------------------------------------------------------------
(* parseIIHFAPI                                                            *)
(*                                                                         *)
(* A feed entry is [GameIsTBD, Status, HomeTeam, GuestTeam, GameDateTime,  *)
(* GameDateTimeUTC, PhaseId, Venue].  HomeTeam / GuestTeam hold            *)
(* game.HomeTeam?.TeamCode ("" when undefined).  GameDateTime is           *)
(* [kind, f]: "missing" (undefined), "bad" (a string the expression does   *)
(* not match) or "ok" with the matched fields f.  GameDateTimeUTC is       *)
(* [kind, t]: "missing", "bad" (new Date gives NaN) or "ok" with the       *)
(* instant t.  Venue is a name, NoName when absent.                        *)

\* expandCountryCode of parse-api.js: the table of parse.js and 'ITA'
expandCountryCodeAPI(code) ==
  IF code = <<"ITA">> THEN <<"Italy">> ELSE expandCountryCode(code)

\* the substrings parseIIHFAPI tests with phaseId.includes, per phase id
PhaseIncludes(phaseId) ==
  CASE phaseId = "QualificationPlay-off" -> {"Qualification", "QualificationPlay-off"}
    [] phaseId = "Quarterfinal"     -> {"Quarterfinal", "Quarter"}
    [] phaseId = "Semifinal"        -> {"Semifinal", "Semi"}
    [] phaseId = "Semi-Final"       -> {"Semi", "Final"}
    [] phaseId = "Final"            -> {"Final"}
    [] phaseId = "GoldMedalGame"    -> {"Gold"}
    [] phaseId = "BronzeMedalGame"  -> {"Bronze"}
    [] phaseId = "PreliminaryRound" -> {"Preliminary", "Prelim"}
    [] OTHER -> {}

RoundOfIncludes(has) ==
  IF has \cap {"Qualification", "QualificationPlay-off"} # {} THEN "Qualifying"
  ELSE IF has \cap {"Quarterfinal", "Quarter"} # {} THEN "Quarterfinal"
  ELSE IF has \cap {"Semifinal", "Semi"} # {} THEN "Semifinal"
  ELSE IF has \cap {"Final", "Gold", "Bronze"} # {} THEN "Final"
  ELSE "Preliminary"
PhaseRound(phaseId) == RoundOfIncludes(PhaseIncludes(phaseId))

\* const opponentCode = homeTeam === 'CAN' ? guestTeam : homeTeam
OpponentCode(game) == IF game.HomeTeam = "CAN" THEN game.GuestTeam ELSE game.HomeTeam

\* a filter that lets every status through
DropsTBDOnly(game) == game.GameIsTBD

\* the filters at the head of the forEach body: TRUE when the entry is dropped
DropsTBDOrNotUpcoming(game) == game.GameIsTBD \/ game.Status # "UPCOMING"
NoOpponent(code) == code = "" \/ code = "TBD"
ApiFiltered(game) ==
  \/ DropsTBDOrNotUpcoming(game)
  \/ game.HomeTeam # "CAN" /\ game.GuestTeam # "CAN"
  \/ NoOpponent(OpponentCode(game))

\* the record the forEach body pushes for an entry that reaches games.push
Pushed(g, utcDate) ==
  [dateStr |-> g.dateStr, timeStr |-> g.timeStr, opponent |-> g.opponent,
   venue |-> g.venue, round |-> g.round, rawText |-> g.rawText,
   id |-> GameId(g), utcDate |-> utcDate]
ApiGame(game, f, round) ==
  Pushed(Candidate(<<Num2(f.day), Num2(f.month), NumOf(f.year)>>,
                   Time(Num2(f.hour), Num2(f.minute), "", ""),
                   expandCountryCodeAPI(<<OpponentCode(game)>>),
                   OrElse(game.Venue, DefaultVenue), round,
                   <<game.HomeTeam, "vs", game.GuestTeam, "-", round>>),
         game.GameDateTimeUTC.t)
ApiRecord(game) == ApiGame(game, game.GameDateTime.f, PhaseRound(game.PhaseId))

\* what the forEach body does with one entry: "skip" (return), "throw"
\* (game.GameDateTime.match on undefined is a TypeError) or "push"
ApiOutcome(game) ==
  IF ApiFiltered(game) THEN "skip"
  ELSE IF game.GameDateTime.kind = "missing" THEN "throw"
  ELSE IF game.GameDateTime.kind = "bad" THEN "skip"
  ELSE IF game.GameDateTimeUTC.kind # "ok" THEN "skip"
  ELSE "push"

\* the forEach from entry i on; st = [threw, games, src], src the feed index
\* of each pushed record; a throw leaves the loop and the function
RECURSIVE ApiForEach(_, _, _)
ApiStep(jsonData, i, st, outcome) ==
  IF outcome = "throw" THEN [threw |-> TRUE, games |-> <<>>, src |-> <<>>]
  ELSE IF outcome = "skip" THEN ApiForEach(jsonData, i + 1, st)
  ELSE ApiForEach(jsonData, i + 1,
                  [threw |-> FALSE, games |-> Append(st.games, ApiRecord(jsonData[i])),
                   src |-> Append(st.src, i)])
ApiForEach(jsonData, i, st) ==
  IF i > Len(jsonData) THEN st ELSE ApiStep(jsonData, i, st, ApiOutcome(jsonData[i]))

parseIIHFAPI(jsonData) ==
  ApiForEach(jsonData, 1, [threw |-> FALSE, games |-> <<>>, src |-> <<>>])

---------------------------------------------------------------------------
(* generateICS (calendar.x and calendar.createEvent of ical-generator are  *)
(* taken to accept the arguments the code gives them)                      *)

Duration == 150   \* 2.5 * 60 minutes

\* the event calendar.createEvent adds for games[index]
EventOf(game, index, startDate) ==
  [uid |-> game.id \o "@olympic-hockey-ics.github.io",
   start |-> startDate, end |-> startDate + Duration,
   opponent |-> normalizeOpponent(game.opponent),
   round |-> game.round, venue |-> game.venue, index |-> index]

\* a catch block that keeps no trace of the failure
SwallowError(st, index) == st

\* the catch block of the forEach body
CatchError(st, index) ==
  [events |-> st.events, eventsCreated |-> st.eventsCreated,
   errors |-> Append(st.errors, index)]

\* the try block for games[index], started being the result of parseDateTime
TryCreate(st, game, index, started) ==
  IF started.ok
  THEN [events |-> Append(st.events, EventOf(game, index, started.t)),
        eventsCreated |-> st.eventsCreated + 1, errors |-> st.errors]
  ELSE CatchError(st, index)

\* the forEach from record i on; st = [events, eventsCreated, errors]
RECURSIVE CreateEvents(_, _, _)
CreateEvents(games, i, st) ==
  IF i > Len(games) THEN st
  ELSE CreateEvents(games, i + 1,
                    TryCreate(st, games[i], i,
                              parseDateTime(games[i].dateStr, games[i].timeStr)))

NoEvents == [events |-> <<>>, eventsCreated |-> 0, errors |-> <<>>]

\* a variant that returns whatever the loop built
generateICSUnchecked(games) ==
  [threw |-> FALSE, st |-> CreateEvents(games, 1, NoEvents)]

\* `if (eventsCreated === 0) throw`, else `return calendar.toString()`
Checked(st) == [threw |-> st.eventsCreated = 0, st |-> st]

\* generateICS(games, sourceUrl): threw, and the loop's state; the returned
\* content is calendar.toString(), one VEVENT block per event of st.events
generateICS(games) ==
  IF Len(games) = 0 THEN [threw |-> TRUE, st |-> NoEvents]
  ELSE Checked(CreateEvents(games, 1, NoEvents))

\* (icsContent.match(/BEGIN:VEVENT/g) || []).length
EventCount(content) == Len(content)

---------------------------------------------------------------------------
(* generate.js                                                             *)

FallbackGame(day) ==
  Candidate(<<Num2(day), Feb, Y2026>>, Time(Num("20", 20), Num("00", 0), "", ""),
            <<"TBD">>, DefaultVenue, "Preliminary",
            <<"Canada", "vs", "TBD", "-", "Preliminary", "Round">>)

getFallbackGames ==
  <<WithId(FallbackGame(6)), WithId(FallbackGame(8)), WithId(FallbackGame(10))>>

---------------------------------------------------------------------------
(* Inputs                                                                  *)

MaxRows  == 2
MaxDivs  == 1
MaxItems == 1
MaxFeed  == 2
MaxGames == 2
MaxRoundRows == 2
MaxNeighbourRows == 2

\* sequences over S of length at most n
SeqsUpTo(S, n) == UNION {[1..k -> S] : k \in 0..n}

\* table rows as schedule pages lay them out, one <td> per tuple
RowCodes      == << <<"Feb", "12">>, <<"20:00">>, <<"CAN", "vs", "CZE">> >>
RowCodesAway  == << <<"Feb", "12">>, <<"20:00">>, <<"CZE", "vs", "CAN">> >>
RowNumeric    == << <<"12/02/2026">>, <<"20:00">>, <<"CZE">>, <<"CAN">> >>
RowOthers     == << <<"Feb", "6">>, <<"20:00">>, <<"CZE", "vs", "USA">> >>
RowNames12h   == << <<"Feb", "12,", "2026">>, <<"8:00", "PM">>, <<"Canada", "vs", "Sweden">> >>
RowNames      == << <<"Feb", "12,", "2026">>, <<"20:00">>, <<"Canada", "vs", "Sweden">> >>
RowNamesLower == << <<"Arena">>, <<"Feb", "12,", "2026">>, <<"20:00">>, <<"Canada", "vs", "sweden">> >>
RowTeamsOnly  == << <<"CAN", "vs", "USA">>, <<"Quarterfinal">> >>

\* rows with a round column
RowQuarterHyphen  == << <<"Feb", "12">>, <<"20:00">>, <<"CAN", "vs", "CZE">>, <<"Quarter-final">> >>
RowFinalSemifinal == << <<"Feb", "12">>, <<"20:00">>, <<"CAN", "vs", "USA">>, <<"Final">>, <<"Semifinal">> >>
RowGroup          == << <<"Feb", "6">>, <<"20:00">>, <<"CAN", "vs", "CZE">>, <<"Group">> >>
RoundRows == {RowQuarterHyphen, RowFinalSemifinal, RowGroup, RowCodes}

\* rows that hold only a part of a game, as tables with a date row or a time
\* row between the game rows have them
RowDateTeams == << <<"Feb", "6">>, <<"CAN", "vs", "USA">> >>
RowTimeTeams == << <<"20:00">>, <<"CAN", "vs", "USA">> >>
RowDateOnly  == << <<"Feb", "12">> >>
RowTimeOnly  == << <<"8:00", "PM">> >>
NeighbourRows == {RowDateTeams, RowTimeTeams, RowDateOnly, RowTimeOnly, RowCodes}

Rows == {RowCodes, RowCodesAway, RowNumeric, RowOthers, RowNames12h, RowNames,
         RowNamesLower, RowTeamsOnly}

\* containers <div class="game"> with <span> children
Divs == { << <<"Feb", "12,", "2026">>, <<"20:00">>, <<"Canada", "vs", "Sweden">> >>,
          << <<"12/2/2026">>, <<"20:00">>, <<"CAN", "vs", "CZE">> >> }

\* JSON-LD items
LocalFields(y, m, d, h, mi) == [year |-> y, month |-> m, day |-> d, hour |-> h, minute |-> mi]
NoFields == LocalFields(0, 0, 0, 0, 0)
Item(type, name, kind, f) ==
  [type |-> type, name |-> name, start |-> [kind |-> kind, f |-> f], location |-> NoName]
Items == { Item("SportsEvent", <<"Canada", "vs", "Sweden">>, "date",
                LocalFields(2026, 2, 12, 20, 0)),
           Item("Event", <<"Canada", "vs", "Sweden">>, "invalid", NoFields),
           Item("SportsEvent", <<"Canada", "vs", "Sweden">>, "date",
                LocalFields(2025, 2, 12, 20, 0)),
           Item("Place", <<"Canada", "vs", "Sweden">>, "date",
                LocalFields(2026, 2, 12, 20, 0)) }

Doc(isIIHF, rows, divs, ld) == [isIIHF |-> isIIHF, rows |-> rows, divs |-> divs, ld |-> ld]
NoDoc == Doc(FALSE, <<>>, <<>>, <<>>)

Docs ==
  {Doc(i, r, <<>>, <<>>) : i \in BOOLEAN, r \in SeqsUpTo(Rows, MaxRows)}
  \cup {Doc(i, r, dv, ld) : i \in BOOLEAN, r \in SeqsUpTo({RowNames12h, RowCodes}, 1),
                            dv \in SeqsUpTo(Divs, MaxDivs), ld \in SeqsUpTo(Items, MaxItems)}
  \cup {Doc(i, r, <<>>, <<>>) : i \in BOOLEAN, r \in SeqsUpTo(RoundRows, MaxRoundRows)}
  \cup {Doc(TRUE, r, <<>>, <<>>) : r \in SeqsUpTo(NeighbourRows, MaxNeighbourRows)}

Reverse(q) == [i \in 1..Len(q) |-> q[Len(q) + 1 - i]]

\* the same page fetched again: as it was, or with its rows in another order,
\* its first row gone, a cell more in every row
Turned(rows, yes) == IF yes THEN Reverse(rows) ELSE rows
Shorter(rows, yes) == IF yes /\ Len(rows) > 0 THEN Tail(rows) ELSE rows
Wider(rows, yes) ==
  IF yes THEN [i \in 1..Len(rows) |-> Append(rows[i], <<"6">>)] ELSE rows
Variants(d) ==
  { Doc(d.isIIHF, Wider(Shorter(Turned(d.rows, t), s), w), d.divs, d.ld) :
      t \in BOOLEAN, s \in BOOLEAN, w \in BOOLEAN }

\* feed entries
Local(kind, f) == [kind |-> kind, f |-> f]
Utc(kind, t) == [kind |-> kind, t |-> t]
Entry(tbd, status, home, guest, local, utc, phase) ==
  [GameIsTBD |-> tbd, Status |-> status, HomeTeam |-> home, GuestTeam |-> guest,
   GameDateTime |-> local, GameDateTimeUTC |-> utc, PhaseId |-> phase, Venue |-> NoName]

Local1640 == Local("ok", LocalFields(2026, 2, 12, 16, 40))
Utc1540   == Utc("ok", DateUTC(2026, 1, 12, 15, 40))
Utc1440   == Utc("ok", DateUTC(2026, 1, 12, 14, 40))

Entries ==
  { Entry(FALSE, "UPCOMING", "CZE", "CAN", Local1640, Utc1540, "Quarterfinal"),
    Entry(TRUE,  "UPCOMING", "CAN", "USA", Local1640, Utc1540, "PreliminaryRound"),
    Entry(FALSE, "FINAL",    "CAN", "USA", Local1640, Utc1540, "PreliminaryRound"),
    Entry(FALSE, "UPCOMING", "SWE", "FIN", Local1640, Utc1540, "PreliminaryRound"),
    Entry(FALSE, "UPCOMING", "CAN", "TBD", Local1640, Utc1540, "Semifinal"),
    Entry(FALSE, "UPCOMING", "CAN", "",    Local1640, Utc1540, "Final"),
    Entry(FALSE, "UPCOMING", "CAN", "USA", Local("missing", NoFields), Utc1540, "PreliminaryRound"),
    Entry(FALSE, "UPCOMING", "CAN", "USA", Local("bad", NoFields), Utc1540, "PreliminaryRound"),
    Entry(FALSE, "UPCOMING", "CAN", "USA", Local1640, Utc("missing", 0), "PreliminaryRound"),
    Entry(FALSE, "UPCOMING", "CAN", "USA", Local1640, Utc("bad", 0), "PreliminaryRound"),
    Entry(FALSE, "UPCOMING", "CAN", "ITA", Local1640, Utc1440, ""),
    Entry(FALSE, "UPCOMING", "CAN", "SWE", Local1640, Utc1540, "Semi-Final"),
    Entry(FALSE, "UPCOMING", "CAN", "USA", Local("ok", LocalFields(2025, 2, 12, 16, 40)),
          Utc("ok", DateUTC(2025, 1, 12, 15, 40)), "PreliminaryRound") }

\* entries whose team code or venue holds a hyphen
At(venue, entry) == [entry EXCEPT !.Venue = venue]
HyphenEntries ==
  { At(<<"Arena">>,
       Entry(FALSE, "UPCOMING", "CAN", "XYZ-B", Local1640, Utc1540, "PreliminaryRound")),
    At(<<"B-Arena">>,
       Entry(FALSE, "UPCOMING", "CAN", "XYZ", Local1640, Utc1540, "PreliminaryRound")) }

Feeds == SeqsUpTo(Entries, MaxFeed) \cup SeqsUpTo(HyphenEntries, MaxFeed)

\* records a caller hands to generateICS
Game(d, m, y, t) ==
  WithId(Candidate(<<Num2(d), Num2(m), Num(NatStr(y), y)>>, t,
                   <<"TBD">>, DefaultVenue, "Preliminary", <<"Canada", "vs", "TBD">>))

SampleGames ==
  { Game(6, 2, 2026, Time(Num("20", 20), Num("00", 0), "", "")),
    Game(1, 3, 2026, Time(Num("00", 0), Num("30", 30), "", "")),
    Game(1, 1, 2026, Time(Num("12", 12), Num("15", 15), " ", "am")),
    Game(12, 2, 2026, Time(Num("8", 8), Num("00", 0), " ", "PM")),
    Game(32, 2, 2026, Time(Num("20", 20), Num("00", 0), "", "")),
    Game(6, 2, 2026, NoTime("TBD")) }

GameLists == SeqsUpTo(SampleGames, MaxGames)

\* team codes and names in several letter cases, known and unknown
CodeInputs == { <<"USA">>, <<"usa">>, <<"Usa">>, <<"CZE">>, <<"cze">>, <<"Cze">>,
                <<"SWE">>, <<"swe">>, <<"Swe">>, <<"XYZ">>, <<"xyz">> }
NameInputs ==
  CodeInputs \cup
  { <<"Sweden">>, <<"sweden">>, <<"SWEDEN">>, <<"Czechia">>, <<"czechia">>,
    <<"CZECHIA">>, <<"Czech", "Republic">>, <<"czech", "republic">>,
    <<"CZECH", "REPUBLIC">>, <<"Atlantis">>, <<"atlantis">>, <<"TBD">>,
    <<"United", "States">>, <<"constructor">> }

\* dateStr and timeStr arguments of parseDateTime
DateInputs ==
  { <<Num("06", 6), Num("02", 2), Num("2026", 2026)>>,
    <<Num("6", 6), Num("2", 2), Num("2026", 2026)>>,
    <<Num("25", 25), Num("02", 2), Num("2026", 2026)>>,
    <<Num("02", 2), Num("25", 25), Num("2026", 2026)>>,
    <<Num("12", 12), Num("12", 12), Num("2026", 2026)>>,
    <<Num("13", 13), Num("13", 13), Num("2026", 2026)>>,
    <<Num("00", 0), Num("02", 2), Num("2026", 2026)>>,
    <<Num("31", 31), Num("02", 2), Num("2026", 2026)>>,
    <<Num("32", 32), Num("02", 2), Num("2026", 2026)>>,
    <<Num("06", 6), Num("00", 0), Num("2026", 2026)>>,
    <<Num("2026", 2026), Num("02", 2), Num("06", 6)>>,
    <<Num("Feb", NaN), Num("06", 6), Num("2026", 2026)>>,
    <<Num("06", 6), Num("02", 2)>>,
    <<Num("TBD", NaN)>> }
HourInputs == {Num(NatStr(h), h) : h \in 0..13} \cup {Num("23", 23), Num("24", 24)}
MinuteInputs == {Num("00", 0), Num("59", 59), Num("60", 60)}
TimeInputs ==
  {Time(h, mi, "", p) : h \in HourInputs, mi \in MinuteInputs,
                        p \in {"", "am", "pm", "AM", "PM"}}
  \cup {NoTime("TBD")}

---------------------------------------------------------------------------
---------------------------------------------------------------------------
(* The state machine                                                       *)

NoFile == [written |-> FALSE, content |-> <<>>]
Running == <<>>
Exit(code) == <<code>>
\* what fetchSchedule() gives main(): a page, or a rejection
Fetched(d) == [ok |-> TRUE, html |-> d]
FetchFailed == [ok |-> FALSE, html |-> NoDoc]
FetchResults == {Fetched(d) : d \in Docs} \cup {FetchFailed}

Init ==
  /\ pc = "idle" /\ op = "none"
  /\ doc = NoDoc /\ feed = <<>>
  /\ candidates = <<>> /\ schedule = <<>> /\ previous = <<>> /\ apiSrc = <<>>
  /\ events = <<>> /\ eventsCreated = 0 /\ errors = <<>>
  /\ threw = FALSE /\ file = NoFile /\ exitCode = Running
  /\ arg = <<>> /\ result = <<>>

\* parseSchedule(html, sourceUrl) on a fetched page
ParseSchedule(d) ==
  /\ pc = "idle"
  /\ pc' = "parsed" /\ op' = "parseSchedule"
  /\ doc' = d
  /\ \E run \in {parseSchedule(d)} :
       candidates' = run.games /\ schedule' = run.returned /\ threw' = run.threw
  /\ UNCHANGED <<feed, previous, apiSrc, events, eventsCreated, errors, file, exitCode>>
  /\ UNCHANGED <<arg, result>>

\* the next run: parseSchedule on the page as it is served then
ParseScheduleAgain(d) ==
  /\ pc = "parsed" /\ op = "parseSchedule"
  /\ pc' = "reparsed"
  /\ previous' = schedule
  /\ doc' = d
  /\ \E run \in {parseSchedule(d)} :
       candidates' = run.games /\ schedule' = run.returned /\ threw' = run.threw
  /\ UNCHANGED <<op, feed, apiSrc, events, eventsCreated, errors, file, exitCode>>
  /\ UNCHANGED <<arg, result>>

\* the dedup pass and the id assignment of parseSchedule run once more, on the
\* list parseSchedule returned
RemoveDuplicatesAgain ==
  /\ pc = "parsed" /\ op = "parseSchedule"
  /\ pc' = "deduped"
  /\ previous' = schedule
  /\ schedule' = FromGames(schedule).returned
  /\ UNCHANGED <<op, doc, feed, candidates, apiSrc, events, eventsCreated, errors,
                 threw, file, exitCode>>
  /\ UNCHANGED <<arg, result>>

\* parseIIHFAPI(jsonData)
ParseIIHFAPI(jsonData) ==
  /\ pc = "idle"
  /\ pc' = "parsed" /\ op' = "parseIIHFAPI"
  /\ feed' = jsonData
  /\ \E run \in {parseIIHFAPI(jsonData)} :
       schedule' = run.games /\ apiSrc' = run.src /\ threw' = run.threw
  /\ UNCHANGED <<doc, candidates, previous, events, eventsCreated, errors, file, exitCode>>
  /\ UNCHANGED <<arg, result>>

\* getFallbackGames(), as test-fallback.js calls it
GetFallbackGames ==
  /\ pc = "idle"
  /\ pc' = "parsed" /\ op' = "getFallbackGames"
  /\ schedule' = getFallbackGames
  /\ threw' = FALSE
  /\ UNCHANGED <<doc, feed, candidates, previous, apiSrc, events, eventsCreated,
                 errors, file, exitCode>>
  /\ UNCHANGED <<arg, result>>

\* the effect of a call of generateICS with the outcome ics on the state
Generated(ics) ==
  /\ events' = ics.st.events
  /\ eventsCreated' = ics.st.eventsCreated
  /\ errors' = ics.st.errors
  /\ threw' = ics.threw

\* generateICS on the records a parser returned
GenerateICS ==
  /\ pc \in {"parsed", "reparsed"} /\ ~threw
  /\ pc' = "generated" /\ op' = "generateICS"
  /\ \E ics \in {generateICS(schedule)} : Generated(ics)
  /\ UNCHANGED <<doc, feed, candidates, schedule, previous, apiSrc, file, exitCode>>
  /\ UNCHANGED <<arg, result>>

\* generateICS on records of the caller's own
GenerateICSOf(gs) ==
  /\ pc = "idle"
  /\ pc' = "generated" /\ op' = "generateICS"
  /\ schedule' = gs
  /\ \E ics \in {generateICS(gs)} : Generated(ics)
  /\ UNCHANGED <<doc, feed, candidates, previous, apiSrc, file, exitCode>>
  /\ UNCHANGED <<arg, result>>

\* main() of the first version in generate.js: `let url = SOURCE_URLS[0]` reads
\* a name that version does not declare; the ReferenceError reaches the outer
\* catch, which exits with code 1
MainAPI ==
  /\ pc = "idle"
  /\ pc' = "exited" /\ op' = "main"
  /\ threw' = TRUE
  /\ exitCode' = Exit(1)
  /\ UNCHANGED <<doc, feed, candidates, schedule, previous, apiSrc, events,
                 eventsCreated, errors, file>>
  /\ UNCHANGED <<arg, result>>

\* main() of the second version, up to `await fetchSchedule()`
MainStart ==
  /\ pc = "idle"
  /\ pc' = "fetching" /\ op' = "main"
  /\ UNCHANGED <<doc, feed, candidates, schedule, previous, apiSrc, events,
                 eventsCreated, errors, threw, file, exitCode>>
  /\ UNCHANGED <<arg, result>>

\* what the inner try block of main() leaves: the games array of
\* parseSchedule and the list it returned, nothing when the fetch failed
NoRun == [games |-> <<>>, returned |-> <<>>]
MainRun(fetched) == IF fetched.ok THEN parseSchedule(fetched.html) ELSE NoRun

\* the games main() goes on with: the parsed ones, or the fallback when the
\* fetch failed or nothing was parsed
MainGames(returned) == IF Len(returned) = 0 THEN getFallbackGames ELSE returned

\* main() from `generateICS(games, url)` to `await writeFile` or process.exit(1)
MainGenerate(ics) ==
  /\ Generated(ics)
  /\ IF ics.threw \/ EventCount(ics.st.events) = 0
     THEN pc' = "exited" /\ exitCode' = Exit(1)
     ELSE pc' = "writing" /\ exitCode' = Running

\* main() from the games it goes on with
MainWith(gs) ==
  /\ schedule' = gs
  /\ IF Len(gs) = 0
     THEN /\ pc' = "exited" /\ exitCode' = Exit(1)
          /\ UNCHANGED <<events, eventsCreated, errors, threw>>
     ELSE \E ics \in {generateICS(gs)} : MainGenerate(ics)

\* main() from the fetch result to `await writeFile` or process.exit(1)
MainFetched(fetched) ==
  /\ pc = "fetching"
  /\ doc' = fetched.html
  /\ \E run \in {MainRun(fetched)} :
       candidates' = run.games /\ MainWith(MainGames(run.returned))
  /\ UNCHANGED <<op, feed, previous, apiSrc, file>>
  /\ UNCHANGED <<arg, result>>

\* writeFile resolves and main() returns
MainWritten ==
  /\ pc = "writing"
  /\ pc' = "exited"
  /\ file' = [written |-> TRUE, content |-> events]
  /\ exitCode' = Exit(0)
  /\ UNCHANGED <<op, doc, feed, candidates, schedule, previous, apiSrc, events,
                 eventsCreated, errors, threw>>
  /\ UNCHANGED <<arg, result>>

\* writeFile rejects: the outer catch exits with code 1
MainWriteFailed ==
  /\ pc = "writing"
  /\ pc' = "exited"
  /\ exitCode' = Exit(1)
  /\ UNCHANGED <<op, doc, feed, candidates, schedule, previous, apiSrc, events,
                 eventsCreated, errors, threw, file>>
  /\ UNCHANGED <<arg, result>>

---------------------------------------------------------------------------
(* fetchSchedule                                                           *)

\* fetchSchedule() as main() of lines 120-240 calls it (generate.js 44-115);
\* the older copy of lines 340-389 is the same loops without the API request

\* FALLBACK_URLS when SOURCE_URL is not set; it has one entry when it is
FALLBACK_URLS ==
  << "https://www.iihf.com/en/events/2026/olympic-m/schedule",
     "https://www.hockeycanada.ca/en-ca/team-canada/men/olympics/2026/stats/schedule" >>

\* what the network and the installation give one call: whether the request
\* to IIHF_API_URL succeeds, whether fetch succeeds on each of FALLBACK_URLS,
\* whether ./lib/fetch-with-puppeteer.js can be imported, and whether
\* fetchWithPuppeteer resolves on each of FALLBACK_URLS
FetchEnv(api, html, puppeteer, rendered) ==
  [api |-> api, html |-> html, puppeteer |-> puppeteer, rendered |-> rendered]
FetchEnvs ==
  UNION { {FetchEnv(a, h, p, r) : a \in BOOLEAN, p \in BOOLEAN,
                                  h \in [1..n -> BOOLEAN], r \in [1..n -> BOOLEAN]} :
          n \in {1, Len(FALLBACK_URLS)} }

\* one retrieval attempt: kind "api", "html" or "puppeteer", url the index in
\* FALLBACK_URLS (0 for the API)
Attempt(kind, url) == [kind |-> kind, url |-> url]
\* the call's progress: the attempts started so far, the index of the loop
\* it is in, and what it returned
Progress(attempts, i, value) == [attempts |-> attempts, i |-> i, value |-> value]
NoValue == <<>>
Position(at, i) == [pc |-> at, i |-> i]

\* the Puppeteer loop entered as soon as one plain fetch has failed
PuppeteerAfterFailure(env, i) ==
  IF env.puppeteer THEN Position("puppeteer", 1) ELSE Position("failed", 0)
\* after the catch block of the plain fetch of URL i: the next URL, else the
\* Puppeteer loop when getPuppeteerFetcher() gives a fetcher, else the throw
AfterHtmlFailure(env, i) ==
  IF i < Len(env.html) THEN Position("html", i + 1)
  ELSE IF env.puppeteer THEN Position("puppeteer", 1)
  ELSE Position("failed", 0)
\* after the catch block of the Puppeteer fetch of URL i
AfterPuppeteerFailure(env, i) ==
  IF i < Len(env.rendered) THEN Position("puppeteer", i + 1) ELSE Position("failed", 0)

\* one attempt made at the current position: it returns its value, or the
\* call moves to position `next`
Attempted(a, ok, next) ==
  /\ pc' = (IF ok THEN "fetched" ELSE next.pc)
  /\ result' = Progress(Append(result.attempts, a), IF ok THEN result.i ELSE next.i,
                        IF ok THEN <<a>> ELSE NoValue)
  /\ threw' = (~ok /\ next.pc = "failed")
  /\ UNCHANGED <<op, arg, doc, feed, candidates, schedule, previous, apiSrc, events,
                 eventsCreated, errors, file, exitCode>>

\* a call of fetchSchedule()
FetchSchedule(env) ==
  /\ pc = "idle"
  /\ pc' = "api" /\ op' = "fetchSchedule"
  /\ arg' = env
  /\ result' = Progress(<<>>, 0, NoValue)
  /\ UNCHANGED <<doc, feed, candidates, schedule, previous, apiSrc, events,
                 eventsCreated, errors, threw, file, exitCode>>

\* the outer try block: the request to IIHF_API_URL
FetchAPI ==
  /\ pc = "api" /\ op = "fetchSchedule"
  /\ Attempted(Attempt("api", 0), arg.api, Position("html", 1))

\* one round of `for (const url of FALLBACK_URLS)` with fetch
FetchHTML ==
  /\ pc = "html" /\ op = "fetchSchedule"
  /\ Attempted(Attempt("html", result.i), arg.html[result.i],
               AfterHtmlFailure(arg, result.i))

\* one round of `for (const url of FALLBACK_URLS)` with fetchWithPuppeteer
FetchPuppeteer ==
  /\ pc = "puppeteer" /\ op = "fetchSchedule"
  /\ Attempted(Attempt("puppeteer", result.i), arg.rendered[result.i],
               AfterPuppeteerFailure(arg, result.i))

\* a call of expandCountryCode(code)
ExpandCountryCode(code) ==
  /\ pc = "idle"
  /\ pc' = "returned" /\ op' = "expandCountryCode"
  /\ arg' = code
  /\ result' = expandCountryCode(code)
  /\ UNCHANGED <<doc, feed, candidates, schedule, previous, apiSrc, events,
                 eventsCreated, errors, threw, file, exitCode>>

\* a call of normalizeOpponent(opponent)
NormalizeOpponent(opponent) ==
  /\ pc = "idle"
  /\ pc' = "returned" /\ op' = "normalizeOpponent"
  /\ arg' = opponent
  /\ result' = normalizeOpponent(opponent)
  /\ UNCHANGED <<doc, feed, candidates, schedule, previous, apiSrc, events,
                 eventsCreated, errors, threw, file, exitCode>>

\* normalizeOpponent called on what the call before returned; on a value
\* that is not a string opponent.toLowerCase is not a function (TypeError)
NormalizeOpponentAgain ==
  /\ pc = "returned" /\ op = "normalizeOpponent"
  /\ pc' = "renormalized"
  /\ arg' = result
  /\ threw' = ~IsString(result)
  /\ result' = (IF IsString(result) THEN normalizeOpponent(result) ELSE <<>>)
  /\ UNCHANGED <<op, doc, feed, candidates, schedule, previous, apiSrc, events,
                 eventsCreated, errors, file, exitCode>>

\* a call of parseDateTime(dateStr, timeStr): result is the instant returned,
\* threw is set when the call throws
ParseDateTime(dateStr, timeStr) ==
  /\ pc = "idle"
  /\ pc' = "returned" /\ op' = "parseDateTime"
  /\ arg' = <<dateStr, timeStr>>
  /\ \E r \in {parseDateTime(dateStr, timeStr)} :
       threw' = ~r.ok /\ result' = r.t
  /\ UNCHANGED <<doc, feed, candidates, schedule, previous, apiSrc, events,
                 eventsCreated, errors, file, exitCode>>

Next ==
  \/ \E d \in Docs : ParseSchedule(d)
  \/ \E d \in Variants(doc) : ParseScheduleAgain(d)
  \/ RemoveDuplicatesAgain
  \/ \E jsonData \in Feeds : ParseIIHFAPI(jsonData)
  \/ GetFallbackGames
  \/ GenerateICS
  \/ \E gs \in GameLists : GenerateICSOf(gs)
  \/ MainAPI
  \/ MainStart
  \/ \E fetched \in FetchResults : MainFetched(fetched)
  \/ MainWritten
  \/ MainWriteFailed
  \/ \E env \in FetchEnvs : FetchSchedule(env)
  \/ FetchAPI
  \/ FetchHTML
  \/ FetchPuppeteer
  \/ \E code \in CodeInputs : ExpandCountryCode(code)
  \/ \E opponent \in NameInputs : NormalizeOpponent(opponent)
  \/ NormalizeOpponentAgain
  \/ \E dateStr \in DateInputs, timeStr \in TimeInputs : ParseDateTime(dateStr, timeStr)

Spec == Init /\ [][Next]_vars

---------------------------------------------------------------------------
(* Properties                                                              *)

Range(q) == {q[i] : i \in 1..Len(q)}

\* parseSchedule has returned `schedule` for the page `doc`
ParsedPage == op = "parseSchedule" /\ pc \in {"parsed", "reparsed"}
\* parseIIHFAPI has been called on `feed`
ParsedFeed == op = "parseIIHFAPI" /\ pc = "parsed"
\* generateICS has been called on `schedule`
CalledGenerateICS ==
  pc \in {"generated", "writing"} \/ (pc = "exited" /\ op = "main" /\ Len(schedule) > 0)

\* the start instant a record materializes to
StartOf(g) == parseDateTime(g.dateStr, g.timeStr)

\* two records describe the same game
SameGame(a, b) ==
  /\ StartOf(a).ok /\ StartOf(b).ok
  /\ StartOf(a).t = StartOf(b).t
  /\ normalizeOpponent(a.opponent) = normalizeOpponent(b.opponent)

\* C1: parseSchedule never returns two records that materialize to the same
\* start instant with the same normalized opponent name.
NoGameTwice ==
  ParsedPage =>
    \A i, j \in 1..Len(schedule) : i # j => ~SameGame(schedule[i], schedule[j])

\* the five fields of a record that the id is said to depend on, as the
\* strings the code interpolates
TupleOf(g) ==
  <<DateText(g.dateStr), TimeText(g.timeStr), Join(g.opponent), Join(g.venue), g.round>>

\* C2: two records with identical (dateStr, timeStr, opponent, venue, round)
\* have the same id, within one run and across two runs, whatever their
\* rawText, their position and the other candidates.
IdOfTupleOnly ==
  \A a, b \in Range(schedule) \cup Range(previous) :
    TupleOf(a) = TupleOf(b) => a.id = b.id

\* C2 witness: the second run returns, at another position and next to other
\* records, a record with the 5-tuple of a record of the first run and
\* another rawText.
SameTupleOtherRawText ==
  /\ pc = "reparsed"
  /\ Len(schedule) # Len(previous)
  /\ \E i \in 1..Len(schedule), j \in 1..Len(previous) :
       /\ i # j
       /\ TupleOf(schedule[i]) = TupleOf(previous[j])
       /\ schedule[i].rawText # previous[j].rawText

\* the case-insensitive (dateStr, timeStr, opponent) key of a candidate
KeyOf(g) == <<LowerDate(g.dateStr), LowerTime(g.timeStr), LowerWords(g.opponent)>>

\* the candidates that are the first with their key, by index
Firsts(c) == {i \in 1..Len(c) : \A j \in 1..(i - 1) : KeyOf(c[j]) # KeyOf(c[i])}
Rank(S, i) == Cardinality({j \in S : j <= i})
Stripped(r) == Candidate(r.dateStr, r.timeStr, r.opponent, r.venue, r.round, r.rawText)

\* C3: after the dedup pass no two survivors share a case-insensitive key,
\* the survivors are exactly the candidates that come first with their key,
\* with that candidate's venue, round and rawText, in scan order.
FirstSeenWins ==
  ParsedPage =>
    /\ \A i, j \in 1..Len(schedule) :
         i # j => KeyOf(schedule[i]) # KeyOf(schedule[j])
    /\ Len(schedule) = Cardinality(Firsts(candidates))
    /\ \A i \in Firsts(candidates) :
         Stripped(schedule[Rank(Firsts(candidates), i)]) = candidates[i]

\* C3 witness: two candidates whose keys differ in case only, with different
\* venue and rawText, collapsed to the first.
CollapsedFoldingCase ==
  /\ ParsedPage
  /\ Len(schedule) < Len(candidates)
  /\ \E i, j \in 1..Len(candidates) :
       /\ i < j
       /\ KeyOf(candidates[i]) = KeyOf(candidates[j])
       /\ candidates[i].opponent # candidates[j].opponent
       /\ candidates[i].venue # candidates[j].venue
       /\ candidates[i].rawText # candidates[j].rawText
       /\ Stripped(schedule[1]) = candidates[i]

\* C4: generateICS throws on an empty list and when no record passes the
\* validation, so it never returns a calendar without events; main writes
\* the file only with at least one VEVENT and otherwise exits with code 1.
NoEmptyCalendar ==
  /\ CalledGenerateICS =>
       /\ Len(schedule) = 0 => threw
       /\ (\A i \in 1..Len(schedule) : ~StartOf(schedule[i]).ok) => threw
       /\ ~threw => EventCount(events) >= 1
  /\ file.written => EventCount(file.content) >= 1
  /\ (pc = "exited" /\ op = "main" /\ EventCount(events) = 0) =>
       ~file.written /\ exitCode = Exit(1)

\* C4 witness: main ended with code 1 and no file after generateICS threw on
\* parsed records none of which passes the validation.
MainRefusedEmptyCalendar ==
  /\ pc = "exited" /\ op = "main"
  /\ Len(schedule) > 0 /\ threw /\ EventCount(events) = 0
  /\ ~file.written /\ exitCode = Exit(1)

\* the records of `schedule` that pass the validation, by index
ValidIndices == {i \in 1..Len(schedule) : StartOf(schedule[i]).ok}

\* C5: with at least one valid record generateICS returns normally with one
\* event per valid record, in input order; created events and recorded
\* errors add up to the number of input records.
InvalidRecordsSkipped ==
  CalledGenerateICS =>
    /\ eventsCreated + Len(errors) = Len(schedule)
    /\ ValidIndices # {} =>
         /\ ~threw
         /\ Len(events) = Cardinality(ValidIndices)
         /\ \A i \in ValidIndices :
              /\ events[Rank(ValidIndices, i)].index = i
              /\ events[Rank(ValidIndices, i)].uid
                   = schedule[i].id \o "@olympic-hockey-ics.github.io"

\* C5 witness: a call that returned with an event after an invalid record
\* was skipped.
SkippedThenCreated ==
  /\ CalledGenerateICS /\ ~threw
  /\ Len(schedule) >= 2
  /\ ~StartOf(schedule[1]).ok
  /\ Len(events) >= 1 /\ Len(errors) >= 1

\* the calendar: leap years and the days of a month
IsLeap(y) == (y % 4 = 0 /\ y % 100 # 0) \/ y % 400 = 0
DaysIn(y, m) ==
  IF m = 2 THEN (IF IsLeap(y) THEN 29 ELSE 28)
  ELSE IF m \in {4, 6, 9, 11} THEN 30 ELSE 31

\* the hour of a clock reading, 12-hour readings converted
ClockHour(t) ==
  IF LowerPeriod(t.p) = "pm" THEN (IF t.h.val = 12 THEN 12 ELSE t.h.val + 12)
  ELSE IF LowerPeriod(t.p) = "am" THEN (IF t.h.val = 12 THEN 0 ELSE t.h.val)
  ELSE t.h.val

\* a record with a valid DD/MM/YYYY dateStr and a valid timeStr
ValidRecord(g) ==
  /\ Len(g.dateStr) = 3 /\ g.timeStr.ok
  /\ \A k \in 1..3 : g.dateStr[k].val # NaN
  /\ g.dateStr[2].val \in 1..12
  /\ g.dateStr[1].val \in 1..DaysIn(g.dateStr[3].val, g.dateStr[2].val)
  /\ g.timeStr.mi.val \in 0..59
  /\ IF g.timeStr.p = "" THEN g.timeStr.h.val \in 0..23 ELSE g.timeStr.h.val \in 1..12

\* the local wall-clock reading of a record
WallClock(g) ==
  [year |-> g.dateStr[3].val, month |-> g.dateStr[2].val, day |-> g.dateStr[1].val,
   hour |-> ClockHour(g.timeStr), minute |-> g.timeStr.mi.val]

\* the reading one hour earlier, borrowing from the day, the month, the year
HourBefore(w) ==
  IF w.hour >= 1 THEN [w EXCEPT !.hour = @ - 1]
  ELSE IF w.day >= 2 THEN [w EXCEPT !.hour = 23, !.day = @ - 1]
  ELSE IF w.month >= 2
  THEN [w EXCEPT !.hour = 23, !.day = DaysIn(w.year, w.month - 1), !.month = @ - 1]
  ELSE [w EXCEPT !.hour = 23, !.day = 31, !.month = 12, !.year = @ - 1]

\* C6: every valid record gets an event that starts at its local wall-clock
\* reading minus one hour, across day and month boundaries, and ends 2 h 30
\* later; 06/02/2026 20:00 starts 2026-02-06T19:00Z and ends 21:30Z.
StartIsLocalMinusOneHour ==
  CalledGenerateICS =>
    /\ \A i \in 1..Len(schedule) :
         ValidRecord(schedule[i]) => \E k \in 1..Len(events) : events[k].index = i
    /\ \A k \in 1..Len(events) :
         ValidRecord(schedule[events[k].index]) =>
           /\ Fields(events[k].start) = HourBefore(WallClock(schedule[events[k].index]))
           /\ events[k].end = events[k].start + 150
           /\ (/\ DateText(schedule[events[k].index].dateStr) = "06/02/2026"
               /\ TimeText(schedule[events[k].index].timeStr) = "20:00") =>
                /\ Fields(events[k].start)
                     = [year |-> 2026, month |-> 2, day |-> 6, hour |-> 19, minute |-> 0]
                /\ Fields(events[k].end)
                     = [year |-> 2026, month |-> 2, day |-> 6, hour |-> 21, minute |-> 30]

\* C6 witness: the event of 00:30 on 01/03/2026 starts at 23:30 on the last
\* day of February.
StartsOnPreviousDay ==
  /\ CalledGenerateICS
  /\ \E k \in 1..Len(events) :
       /\ DateText(schedule[events[k].index].dateStr) = "01/03/2026"
       /\ TimeText(schedule[events[k].index].timeStr) = "00:30"
       /\ Fields(events[k].start)
            = [year |-> 2026, month |-> 2, day |-> 28, hour |-> 23, minute |-> 30]

\* generateICS has been called on the records parseIIHFAPI returned
GeneratedFromFeed == pc = "generated" /\ Len(feed) > 0

\* C7: the event of a record of parseIIHFAPI starts exactly at the
\* GameDateTimeUTC of its feed entry, with the expanded opponent code and the
\* round of the PhaseId.
StartIsGameDateTimeUTC ==
  GeneratedFromFeed =>
    \A k \in 1..Len(events) :
      /\ events[k].start = feed[apiSrc[events[k].index]].GameDateTimeUTC.t
      /\ events[k].opponent
           = expandCountryCodeAPI(<<OpponentCode(feed[apiSrc[events[k].index]])>>)
      /\ events[k].round = PhaseRound(feed[apiSrc[events[k].index]].PhaseId)

\* C8: every record parseSchedule returns comes from a row or element whose
\* text mentions the tracked team (CAN or Canada).
OnlyTrackedTeamRows ==
  ParsedPage => \A i \in 1..Len(schedule) : isCanadaGame(schedule[i].rawText)

\* the four tests of a feed entry
PassesFilters(e) ==
  /\ ~e.GameIsTBD
  /\ e.Status = "UPCOMING"
  /\ e.HomeTeam = "CAN" \/ e.GuestTeam = "CAN"
  /\ \E c \in {e.HomeTeam, e.GuestTeam} : c \notin {"CAN", "", "TBD"}

\* C9: every record parseIIHFAPI returns comes from a feed entry that is not
\* TBD, is UPCOMING, has CAN as one team and an opponent code other than TBD.
OnlyFilteredEntries ==
  ParsedFeed =>
    /\ Len(apiSrc) = Len(schedule)
    /\ \A k \in 1..Len(schedule) :
         /\ apiSrc[k] \in 1..Len(feed)
         /\ PassesFilters(feed[apiSrc[k]])
         /\ schedule[k].rawText[1] = feed[apiSrc[k]].HomeTeam
         /\ schedule[k].rawText[3] = feed[apiSrc[k]].GuestTeam

\* C9 witness: a feed with an entry that fails a test and an entry that
\* passes them all, the latter returned.
DroppedAndKept ==
  /\ ParsedFeed /\ ~threw
  /\ Len(schedule) = 1 /\ Len(feed) = 2
  /\ ~PassesFilters(feed[1])

\* the entries parseIIHFAPI is to return a record for, by index
Usable(e) ==
  PassesFilters(e) /\ e.GameDateTime.kind = "ok" /\ e.GameDateTimeUTC.kind = "ok"
UsableIndices == {i \in 1..Len(feed) : Usable(feed[i])}

\* C10: parseIIHFAPI does not throw on an entry with a missing or
\* unparseable GameDateTime or GameDateTimeUTC, and returns a record for every
\* other entry that passes the filters, in feed order.
BadTimestampsSkipped ==
  ParsedFeed =>
    /\ ~threw
    /\ Len(apiSrc) = Cardinality(UsableIndices)
    /\ \A i \in UsableIndices : apiSrc[Rank(UsableIndices, i)] = i


\* generateICS has been called on records that parseSchedule or parseIIHFAPI
\* returned
GeneratedFromParser == pc = "generated" /\ (Len(feed) > 0 \/ Len(candidates) > 0)

\* C11: in a calendar generateICS emits for the records of parseSchedule or
\* of parseIIHFAPI no two events have the same uid, and each uid is the
\* record id followed by @olympic-hockey-ics.github.io.
UidsDistinct ==
  GeneratedFromParser =>
    /\ \A k \in 1..Len(events) :
         events[k].uid = schedule[events[k].index].id \o "@olympic-hockey-ics.github.io"
    /\ \A i, j \in 1..Len(events) : i # j => events[i].uid # events[j].uid

\* a name that is the tracked team's code or holds the tracked team's name
NamesTrackedTeam(o) ==
  \/ Len(o) = 1 /\ IsCan(o[1])
  \/ \E k \in 1..Len(o) : HasCanada(o[k])

\* C12: the opponent of a record parseSchedule returns is never the tracked
\* team: not CAN in any letter case, and without the name Canada in it.
OpponentNotTracked ==
  ParsedPage => \A i \in 1..Len(schedule) : ~NamesTrackedTeam(schedule[i].opponent)

\* main() has ended
MainEnded == pc = "exited" /\ op = "main"
\* generateICS was called by main() and threw, or gave no event
GenerationFailed == Len(schedule) > 0 /\ (threw \/ EventCount(events) = 0)
\* generateICS gave main() events and the file was not written
WriteFailed == Len(schedule) > 0 /\ ~threw /\ EventCount(events) > 0 /\ ~file.written

\* C13: a run of main ends with an exit code; when the retrieval failed or
\* nothing was parsed it goes on with the three games of getFallbackGames and
\* writes a file with one event for each; it exits with code 1 only when
\* generateICS failed or gave no event (or the file could not be written).
MainFallsBack ==
  MainEnded =>
    /\ exitCode \in {Exit(0), Exit(1)}
    /\ exitCode = Exit(1) => GenerationFailed \/ WriteFailed
    /\ Len(candidates) = 0 =>
         /\ schedule = getFallbackGames
         /\ WriteFailed \/ (file.written /\ EventCount(file.content) = 3)

\* the display names of the codes and the canonical names of the spellings
\* among the inputs, by lower-cased spelling
CodeNames ==
  [c \in {"usa", "cze", "swe"} |->
     CASE c = "usa" -> <<"United", "States">>
       [] c = "cze" -> <<"Czechia">>
       [] c = "swe" -> <<"Sweden">>]
CanonicalNames ==
  [n \in {<<"usa">>, <<"sweden">>, <<"czechia">>, <<"czech", "republic">>} |->
     CASE n = <<"usa">> -> <<"United", "States">>
       [] n = <<"sweden">> -> <<"Sweden">>
       [] OTHER -> <<"Czechia">>]

\* a direct call of f has returned
Called(f) == pc = "returned" /\ op = f

\* what expandCountryCode is to give for a code, in any letter case
ExpansionOf(code) ==
  IF toLowerCase(code[1]) \in DOMAIN CodeNames THEN CodeNames[toLowerCase(code[1])]
  ELSE code

\* C15, normalizeOpponent: every letter-case variant of a known name or
\* alternate spelling gives the canonical name, an upper-case code gives its
\* display name, and input that is neither comes back unchanged.
NamesNormalized ==
  Called("normalizeOpponent") =>
    IF LowerWords(arg) \in DOMAIN CanonicalNames
    THEN result = CanonicalNames[LowerWords(arg)]
    ELSE IF IsCodeName(arg) THEN result = ExpansionOf(arg)
    ELSE (Len(arg) = 1 /\ toLowerCase(arg[1]) \in DOMAIN CodeNames) \/ result = arg

\* C15: expandCountryCode gives every letter-case variant of a known 3-letter
\* code the same display name and returns any other input unchanged, and
\* normalizeOpponent does the same for names.
LookupIgnoresCase ==
  /\ Called("expandCountryCode") => result = ExpansionOf(arg)
  /\ NamesNormalized

\* the arguments of the parseDateTime call
ArgDate == arg[1]
ArgTime == arg[2]
\* the call's dateStr has three numeric parts, its timeStr a valid reading
NumericDate == Len(ArgDate) = 3 /\ \A k \in 1..3 : ArgDate[k].val # NaN
ValidClock(t) == t.ok /\ t.mi.val \in 0..59 /\ ClockHour(t) \in 0..23
\* the instant returned is the reading (day, month), an hour earlier
ReturnedReading(day, month) ==
  /\ ~threw
  /\ day <= DaysIn(ArgDate[3].val, month) =>
       Fields(result) = HourBefore([year |-> ArgDate[3].val, month |-> month, day |-> day,
                                    hour |-> ClockHour(ArgTime),
                                    minute |-> ArgTime.mi.val])
\* what the call is to do once the date is read as (day, month)
ReadAs(day, month) ==
  IF month \notin 1..12 \/ day \notin 1..31 THEN threw ELSE ReturnedReading(day, month)

\* C16: parseDateTime reads every three-part dateStr day-first, the first
\* component the day and the second the month, and rejects a dateStr whose
\* second component is outside 1..12.
AlwaysDayFirst ==
  (Called("parseDateTime") /\ NumericDate /\ ValidClock(ArgTime)) =>
    ReadAs(ArgDate[1].val, ArgDate[2].val)

\* C16 as amended: parseDateTime reads a three-part dateStr day-first unless
\* the first component is at most 12 and the second greater than 12, when it
\* reads it month-first; a date whose month, so read, is outside 1..12 or
\* whose day is outside 1..31 is rejected.
DayFirstUnlessSecondOver12 ==
  (Called("parseDateTime") /\ NumericDate /\ ValidClock(ArgTime)) =>
    IF ArgDate[1].val <= 12 /\ ArgDate[2].val > 12
    THEN ReadAs(ArgDate[2].val, ArgDate[1].val)
    ELSE ReadAs(ArgDate[1].val, ArgDate[2].val)

\* C16 witness: 02/25/2026 23:00 returned as 25 February 22:00 UTC.
MonthFirstRead ==
  /\ Called("parseDateTime") /\ ~threw
  /\ DateText(ArgDate) = "02/25/2026" /\ TimeText(ArgTime) = "23:00"
  /\ Fields(result) = [year |-> 2026, month |-> 2, day |-> 25, hour |-> 22, minute |-> 0]

\* the day and the month parseDateTime reads in a numeric three-part dateStr
MonthFirst == ArgDate[1].val <= 12 /\ ArgDate[2].val > 12
DayRead == IF MonthFirst THEN ArgDate[2].val ELSE ArgDate[1].val
MonthRead == IF MonthFirst THEN ArgDate[1].val ELSE ArgDate[2].val

\* the inputs parseDateTime is to reject
Rejected ==
  \/ ~NumericDate
  \/ ~ArgTime.ok
  \/ DayRead \notin 1..31 \/ MonthRead \notin 1..12
  \/ ClockHour(ArgTime) \notin 0..23 \/ ArgTime.mi.val \notin 0..59

\* t is the instant of a calendar reading
ValidInstant(t) ==
  /\ Fields(t).month \in 1..12
  /\ Fields(t).day \in 1..DaysIn(Fields(t).year, Fields(t).month)
  /\ Fields(t).hour \in 0..23 /\ Fields(t).minute \in 0..59
  /\ DateUTC(Fields(t).year, Fields(t).month - 1, Fields(t).day,
             Fields(t).hour, Fields(t).minute) = t

LocalHour == Fields(result + romeOffsetHours * 60).hour

\* C18: 12 am is hour 0, 12 pm hour 12, h pm is h + 12 and h am is h for h
\* in 1..11, in either letter case of the suffix; without a suffix the hour
\* is the 24-hour reading unchanged.
TwelveHourRules ==
  (Called("parseDateTime") /\ ~threw) =>
    /\ (ArgTime.p \in {"am", "AM"} /\ ArgTime.h.val = 12) => LocalHour = 0
    /\ (ArgTime.p \in {"pm", "PM"} /\ ArgTime.h.val = 12) => LocalHour = 12
    /\ (ArgTime.p \in {"pm", "PM"} /\ ArgTime.h.val \in 1..11) =>
         LocalHour = ArgTime.h.val + 12
    /\ (ArgTime.p \in {"am", "AM"} /\ ArgTime.h.val \in 1..11) =>
         LocalHour = ArgTime.h.val
    /\ ArgTime.p = "" => LocalHour = ArgTime.h.val

\* C18 witness: 12:59 AM returned as 00:59 local time, 23:59 UTC the day
\* before.
MidnightHour ==
  /\ Called("parseDateTime") /\ ~threw
  /\ ArgTime.h.val = 12 /\ ArgTime.mi.val = 59 /\ ArgTime.p = "AM"
  /\ LocalHour = 0
  /\ Fields(result).hour = 23

\* what the table, container and structured-metadata strategies append for
\* the page, in this order
Structured(d) == Strategy1(d) \o Strategy2(d) \o Strategy3(d)

\* C19: the free-text strategy runs exactly when strategies 1 to 3 appended
\* no candidate: the candidates are then those of the free-text strategy, and
\* otherwise those of the table, the containers and the structured metadata,
\* in this order, with no free-text candidate among them.
FreeTextOnlyAsFallback ==
  ParsedPage =>
    /\ Structured(doc) # <<>> => candidates = Structured(doc)
    /\ Structured(doc) = <<>> => candidates = Strategy4(doc)

\* C19 witness: a page whose table, container and metadata each give a
\* candidate and whose text the free-text strategy would match too.
ThreeStrategiesNoFreeText ==
  /\ ParsedPage
  /\ Strategy1(doc) # <<>> /\ Strategy2(doc) # <<>> /\ Strategy3(doc) # <<>>
  /\ Strategy4(doc) # <<>>
  /\ Len(candidates) = Len(Strategy1(doc)) + Len(Strategy2(doc)) + Len(Strategy3(doc))

\* the rounds in the order of their priority, Preliminary being the default
RoundOrder == <<"Qualifying", "Quarterfinal", "Semifinal", "Final">>

\* a text holds a keyword of the round, as a word of its own
Mentions(text, round) ==
  CASE round = "Qualifying" ->
         HasWordIn(text, {"qualifying", "qualification", "qual"})
    [] round = "Quarterfinal" ->
         HasWordIn(text, {"quarterfinal", "quarter-final", "qf", "q.f."})
    [] round = "Semifinal" ->
         HasWordIn(text, {"semifinal", "semi-final", "sf", "s.f."})
    [] round = "Final" ->
         \/ HasWordIn(text, {"final"})
         \/ HasPairIn(text, "gold", "medal") \/ HasPairIn(text, "bronze", "medal")

\* the text of an enclosing element holds a keyword of the round
ParentMentions(text, round) ==
  CASE round = "Qualifying" -> HasWordIn(text, {"qualifying", "qualification", "qual"})
    [] round = "Quarterfinal" -> HasWordIn(text, {"quarterfinal", "quarter-final", "qf"})
    [] round = "Semifinal" -> HasWordIn(text, {"semifinal", "semi-final", "sf"})
    [] round = "Final" -> HasWordIn(text, {"final", "gold", "bronze"})

\* a PhaseId holds a keyword of the round
PhaseMentions(phaseId, round) ==
  CASE round = "Qualifying" -> "Qualification" \in PhaseIncludes(phaseId)
    [] round = "Quarterfinal" -> "Quarter" \in PhaseIncludes(phaseId)
    [] round = "Semifinal" -> "Semi" \in PhaseIncludes(phaseId)
    [] round = "Final" -> PhaseIncludes(phaseId) \cap {"Final", "Gold", "Bronze"} # {}

\* the first round of the priority order that M holds for, or Preliminary
Earliest(M(_)) ==
  IF \E k \in 1..4 : M(RoundOrder[k])
  THEN RoundOrder[CHOOSE k \in 1..4 : M(RoundOrder[k]) /\ \A j \in 1..(k - 1) : ~M(RoundOrder[j])]
  ELSE "Preliminary"

\* the round a record of parseSchedule is to have: the earliest round its
\* text mentions; when it mentions none, Preliminary or, for a row of an
\* IIHF table, the earliest round the table's text mentions
RoundsFor(g) ==
  IF Earliest(LAMBDA r : Mentions(g.rawText, r)) # "Preliminary"
  THEN {Earliest(LAMBDA r : Mentions(g.rawText, r))}
  ELSE IF doc.isIIHF /\ Len(doc.rows) > 0
  THEN {Earliest(LAMBDA r : ParentMentions(TableText(doc.rows), r))}
  ELSE {"Preliminary"}

\* C20: the round of a record is the earliest round, in the order
\* Qualifying, Quarterfinal, Semifinal, Final, that its text (or PhaseId)
\* holds a keyword of; a quarter-final or semi-final keyword never gives
\* Final; without any keyword the round is Preliminary.
RoundByPriority ==
  /\ ParsedPage =>
       \A i \in 1..Len(schedule) :
         /\ schedule[i].round \in RoundsFor(schedule[i])
         /\ HasWordIn(schedule[i].rawText, {"quarter-final", "semi-final"}) =>
              schedule[i].round # "Final"
  /\ ParsedFeed =>
       \A k \in 1..Len(schedule) :
         schedule[k].round
           = Earliest(LAMBDA r : PhaseMentions(feed[apiSrc[k]].PhaseId, r))

\* C20 witness: a row that says Final before Semifinal returned as a
\* semifinal, next to a Quarter-final row returned as a quarterfinal.
SemifinalBeforeFinal ==
  /\ ParsedPage
  /\ \E i \in 1..Len(schedule) :
       /\ HasWordIn(schedule[i].rawText, {"final"})
       /\ HasWordIn(schedule[i].rawText, {"semifinal"})
       /\ ~HasWordIn(schedule[i].rawText, {"quarter-final"})
       /\ schedule[i].round = "Semifinal"
  /\ \E i \in 1..Len(schedule) :
       /\ HasWordIn(schedule[i].rawText, {"quarter-final"})
       /\ schedule[i].round = "Quarterfinal"

\* a text holds a keyword of the preliminary round and of no other round
SaysPreliminary(text) ==
  /\ HasWordIn(text, {"preliminary", "prelim", "group", "pool"})
  /\ \A k \in 1..4 : ~Mentions(text, RoundOrder[k])

\* C21: a row whose own text matches a preliminary / group / pool keyword
\* keeps round Preliminary whatever its enclosing table or container says.
ExplicitPreliminaryKept ==
  ParsedPage =>
    \A i \in 1..Len(schedule) :
      SaysPreliminary(schedule[i].rawText) => schedule[i].round = "Preliminary"

\* the date and the time a row holds itself
DateHeld(row) == IIHFDate(row, TextOf(row))
TimeHeld(row) == IIHFTime(row, TextOf(row))
\* the rows immediately before and after row i
Adjacent(rows, i) == {rows[j] : j \in {i - 1, i + 1} \cap (1..Len(rows))}
\* where the row's date and time come from: itself, else an adjacent row
DatesFor(rows, i) ==
  IF DateHeld(rows[i]) # NoDate THEN {DateHeld(rows[i])}
  ELSE {DateHeld(r) : r \in Adjacent(rows, i)} \ {NoDate}
TimesFor(rows, i) ==
  IF TimeHeld(rows[i]).ok THEN {TimeHeld(rows[i])}
  ELSE {t \in {TimeHeld(r) : r \in Adjacent(rows, i)} : t.ok}

\* C22: in the IIHF table strategy a row that mentions the tracked team takes
\* its date and its time from itself when it has them, and a missing one from
\* the row before or after it whenever that row holds it (a date only, a time
\* only, or both).
MissingFieldFromNeighbour ==
  (ParsedPage /\ doc.isIIHF) =>
    \A i \in 1..Len(doc.rows) :
      ( /\ isCanadaGame(TextOf(doc.rows[i]))
        /\ IIHFOpponent(doc.rows[i], TextOf(doc.rows[i])) # NoName
        /\ DatesFor(doc.rows, i) # {} /\ TimesFor(doc.rows, i) # {} )
      => \E j \in 1..Len(schedule) :
           /\ schedule[j].dateStr \in DatesFor(doc.rows, i)
           /\ schedule[j].timeStr \in TimesFor(doc.rows, i)

\* C23: the dateStr of every record parseSchedule or parseIIHFAPI returns
\* lies in 2026, whatever year the source timestamp carries.
DateStrIn2026 ==
  (ParsedPage \/ ParsedFeed) =>
    \A i \in 1..Len(schedule) :
      /\ Len(schedule[i].dateStr) = 3
      /\ schedule[i].dateStr[3].txt = "2026"


\* a span of page text holds a date one of the extractors reads
HoldsDate(text) ==
  IIHFDateOfText(text) # NoDate \/ DateOfAlt(MatchDateAlt(text)) # NoDate
\* a span of page text holds a word that can name a team other than CAN
HoldsTeam(text) ==
  \E i \in 1..Len(text) : (IsAny3(text[i]) \/ text[i] \in AlphaWords) /\ ~IsCan(text[i])
\* the page has no JSON-LD item, so every record comes from a span of its text
FromSpans == doc.ld = <<>>
RoundNames == {"Qualifying", "Quarterfinal", "Semifinal", "Final", "Preliminary"}

\* C24: every record parseSchedule returns has a non-empty dateStr, timeStr and
\* opponent and a non-empty venue and round, the venue defaulting to 'Milano
\* Cortina 2026' and the round to 'Preliminary'; a span that lacks a date, a
\* time or a team yields no record.
RequiredFieldsPresent ==
  ParsedPage =>
    \A i \in 1..Len(schedule) :
      /\ schedule[i].dateStr # NoDate /\ DateText(schedule[i].dateStr) # ""
      /\ TimeText(schedule[i].timeStr) # ""
      /\ schedule[i].opponent # NoName
      /\ schedule[i].venue # NoName
      /\ schedule[i].round \in RoundNames
      /\ FromSpans =>
           /\ HoldsDate(schedule[i].rawText)
           /\ HasTimePattern(schedule[i].rawText)
           /\ HoldsTeam(schedule[i].rawText)
           /\ schedule[i].venue = OrElse(extractVenue(schedule[i].rawText), DefaultVenue)

\* C24 witness: a table with a complete row and a row without date and time
\* was parsed, and only the complete row gave a record
IncompleteRowDropped ==
  /\ ParsedPage /\ ~doc.isIIHF
  /\ doc.rows = <<RowNames, RowTeamsOnly>>
  /\ Len(schedule) = 1
  /\ schedule[1].venue = DefaultVenue /\ schedule[1].round = "Preliminary"

\* the dedup-and-identify pass has been applied to the list parseSchedule
\* returned (`previous`), giving `schedule`
DedupedAgain == op = "parseSchedule" /\ pc = "deduped"

\* C25: the dedup-and-identify pass is idempotent: applied to its own output
\* it returns the same list, in the same order, with the same ids.
DedupIdempotent == DedupedAgain => schedule = previous

\* C25 witness: the first pass removed a duplicate and kept two records, and
\* the pass has run on these two
DedupedTwoAgain ==
  DedupedAgain /\ Len(candidates) > Len(previous) /\ Len(previous) >= 2

\* the zero-result debug block of parseSchedule was executed in the last call
DiagnosticsRan == ParsedPage /\ Diagnostics(doc, RemoveDuplicates(candidates, {})).ran

Fetching == op = "fetchSchedule"
\* the attempts fetchSchedule can make, in the order of the sources
FetchOrder(env) ==
  <<Attempt("api", 0)>>
    \o [i \in 1..Len(env.html) |-> Attempt("html", i)]
    \o (IF env.puppeteer THEN [i \in 1..Len(env.rendered) |-> Attempt("puppeteer", i)]
        ELSE <<>>)
\* whether an attempt succeeds
Succeeds(env, a) ==
  IF a.kind = "api" THEN env.api
  ELSE IF a.kind = "html" THEN env.html[a.url] ELSE env.rendered[a.url]
IsPrefix(p, q) == Len(p) <= Len(q) /\ \A k \in 1..Len(p) : p[k] = q[k]
Last(q) == q[Len(q)]

NoSilentShift ==
  (Called("parseDateTime") /\ ~threw) =>
    Fields(result + romeOffsetHours * 60) =
      [year |-> ArgDate[3].val, month |-> MonthRead, day |-> DayRead,
       hour |-> ClockHour(ArgTime), minute |-> ArgTime.mi.val]

\* the five fields the id of a record is hashed from
FiveTuple(g) == <<g.dateStr, g.timeStr, g.opponent, g.venue, g.round>>

\* C29: the string hashed for the id tells two different (dateStr, timeStr,
\* opponent, venue, round) tuples apart: two records that differ in a field
\* never have the same hash input, also when a field holds the '-' separator.
HashInputSeparatesTuples ==
  (ParsedPage \/ ParsedFeed \/ op = "getFallbackGames") =>
    \A i, j \in 1..Len(schedule) :
      FiveTuple(schedule[i]) # FiveTuple(schedule[j])
        => uidString(schedule[i]) # uidString(schedule[j])

\* normalizeOpponent has been applied to its own result: `arg` is what the
\* first call returned, `result` what the second did
Renormalized == op = "normalizeOpponent" /\ pc = "renormalized"

\* C30: normalizeOpponent is idempotent: for every opponent string x (a known
\* code, a known name, an alternate spelling, unknown text)
\* normalizeOpponent(normalizeOpponent(x)) = normalizeOpponent(x).
NormalizeIdempotent == Renormalized => ~threw /\ result = arg

=============================================================================
